---- MODULE Spec2Model ----
(***************************************************************************)
(* Noeta DSL front end: symbol table, semantic analyzer, diagnostics and   *)
(* the compile_noeta driver, modelled from noeta_semantic.py,              *)
(* noeta_errors.py, noeta_codegen.py, noeta_runner.py, noeta_kernel.py,    *)
(* noeta_lexer.py and noeta_parser.py.                                     *)
(*                                                                         *)
(* Strings are sequences of one-character strings, so that the edit        *)
(* distance of the suggestion engine is computed, not assumed.             *)
(***************************************************************************)
EXTENDS Integers, Sequences, FiniteSets, TLC

VARIABLES
    datasets,       \* SymbolTable.datasets: insertion-ordered dict, a sequence of DatasetInfo
    history,        \* SymbolTable.history: names in definition order
    carried,        \* compile_noeta's symbol_table argument is not None
    supplied,       \* the table that argument held when compile_noeta was called
    enable_type_check, \* compile_noeta's enable_type_check argument
    prog,           \* ast.statements of the program being compiled
    idx,            \* number of statements analyze() has visited
    errors,         \* SemanticAnalyzer.errors
    pc,             \* position inside compile_noeta / do_execute
    result,         \* what compile_noeta returned or raised
    namespace,      \* NoetaKernel.namespace: runtime bindings name -> frame columns
    cells,          \* number of cells the kernel has executed
    source_code,    \* the text handed to compile_noeta, Lexer.source
    lexer,          \* Lexer.pos, Lexer.line, Lexer.column
    tokens,         \* the list tokenize() builds, then Parser.tokens
    ppos,           \* Parser.pos
    earlier,        \* what the previous compile_noeta call on the same input returned
    calls           \* the define and clear calls made on a SymbolTable used directly

frontvars == <<source_code, lexer, tokens, ppos, earlier, calls>>

vars == <<datasets, history, carried, supplied, enable_type_check, prog, idx, errors, pc,
          result, namespace, cells, source_code, lexer, tokens, ppos, earlier, calls>>

-----------------------------------------------------------------------------
(* Bounds *)

MaxStmts == 2
MaxCells == 3
MaxLen == 3
MaxTokens == 4

-----------------------------------------------------------------------------
(* Names, columns and files the inputs are drawn from *)

nD    == <<"d">>
nDat  == <<"d", "a", "t">>
nData == <<"D", "a", "t", "a">>
nZ    == <<"z", "z", "z", "z", "z">>

\* Python's None: an absent alias or suggestion is the empty string, an
\* absent record (context, hint, info) is the record None
NoAlias == <<>>
NoSuggestion == <<>>
None == [none |-> TRUE]

\* Files of the modelled file system: fSales exists with header x,y;
\* fMissing does not exist; fLocked exists and cannot be opened; fEmpty
\* exists and holds nothing a table can be read from
fSales   == <<"s", ".", "c", "s", "v">>
fMissing == <<"m", ".", "c", "s", "v">>
fLocked  == <<"l", ".", "c", "s", "v">>
fEmpty   == <<"e", ".", "c", "s", "v">>

Min2(a, b) == IF a <= b THEN a ELSE b
Min3(a, b, c) == Min2(a, Min2(b, c))

SeqToSet(s) == {s[i] : i \in 1..Len(s)}

-----------------------------------------------------------------------------
(* noeta_errors.py *)

\* str.lower() on the characters the names use
UpperLetters ==
    <<"A", "B", "C", "D", "E", "F", "G", "H", "I", "J", "K", "L", "M",
      "N", "O", "P", "Q", "R", "S", "T", "U", "V", "W", "X", "Y", "Z">>
LowerLetters ==
    <<"a", "b", "c", "d", "e", "f", "g", "h", "i", "j", "k", "l", "m",
      "n", "o", "p", "q", "r", "s", "t", "u", "v", "w", "x", "y", "z">>

LowerChar(c) ==
    IF \E i \in 1..Len(UpperLetters) : UpperLetters[i] = c
    THEN LowerLetters[CHOOSE i \in 1..Len(UpperLetters) : UpperLetters[i] = c]
    ELSE c
Lower(s) == [i \in 1..Len(s) |-> LowerChar(s[i])]

\* One row of the dynamic programme: current_row for character c1 = s1[i+1]
\* given previous_row (rows are 1-based here: row[j+1] is the code's row[j]).
RECURSIVE LevRow(_, _, _, _, _)
LevRow(c1, s2, previous_row, current_row, j) ==
    IF j > Len(s2) THEN current_row
    ELSE LevRow(c1, s2, previous_row,
                Append(current_row,
                       Min3(previous_row[j + 1] + 1,                              \* insertions
                            current_row[j] + 1,                                   \* deletions
                            previous_row[j] + (IF c1 # s2[j] THEN 1 ELSE 0))),    \* substitutions
                j + 1)

RECURSIVE LevRows(_, _, _, _)
LevRows(s1, s2, previous_row, i) ==
    IF i > Len(s1) THEN previous_row
    ELSE LevRows(s1, s2, LevRow(s1[i], s2, previous_row, <<i>>, 1), i + 1)

\* previous_row[-1]
LastOf(row) == row[Len(row)]

RECURSIVE levenshtein_distance(_, _)
levenshtein_distance(s1, s2) ==
    IF Len(s1) < Len(s2) THEN levenshtein_distance(s2, s1)
    ELSE IF Len(s2) = 0 THEN Len(s1)
    ELSE LastOf(LevRows(s1, s2, [j \in 1..(Len(s2) + 1) |-> j - 1], 1))

\* distances list of suggest_similar: (dist, name) for names within max_distance
WithinDistance(dist, name, max_distance) ==
    IF dist <= max_distance THEN <<[dist |-> dist, name |-> name]>> ELSE <<>>

RECURSIVE SimilarWithin(_, _, _)
SimilarWithin(attempted, available, max_distance) ==
    IF available = <<>> THEN <<>>
    ELSE WithinDistance(levenshtein_distance(Lower(attempted), Lower(Head(available))),
                        Head(available), max_distance)
         \o SimilarWithin(attempted, Tail(available), max_distance)

\* list.sort(key=dist) is stable: insertion into an already sorted prefix
RECURSIVE InsertByDist(_, _)
InsertByDist(sorted, e) ==
    IF sorted = <<>> THEN <<e>>
    ELSE IF e.dist < Head(sorted).dist THEN <<e>> \o sorted
    ELSE <<Head(sorted)>> \o InsertByDist(Tail(sorted), e)

\* Variant: the candidates keep the order of the symbol table
SortByDist_unsorted(ds) == ds

RECURSIVE SortByDist(_)
SortByDist(ds) ==
    IF ds = <<>> THEN <<>>
    ELSE InsertByDist(SortByDist(SubSeq(ds, 1, Len(ds) - 1)), ds[Len(ds)])

\* [name for _, name in distances[:max_suggestions]]
TopNames(distances, max_suggestions) ==
    [i \in 1..Min2(max_suggestions, Len(distances)) |-> distances[i].name]

suggest_similar(attempted, available, max_suggestions, max_distance) ==
    IF available = <<>> THEN <<>>
    ELSE TopNames(SortByDist(SimilarWithin(attempted, available, max_distance)),
                  max_suggestions)

\* ErrorContext is built only for line > 0
create_semantic_error(message, line, column, hint, suggestion) ==
    [category |-> "semantic",
     message |-> message,
     context |-> IF line > 0 THEN [line |-> line, column |-> column] ELSE None,
     hint |-> hint,
     suggestion |-> suggestion]

\* MultiErrorFormatter.format_multiple: entries grouped by category in the
\* fixed category order, numbered sequentially
CategoryOrder == <<"lexical", "syntax", "semantic", "type", "runtime">>

RECURSIVE OfCategory(_, _)
OfCategory(errs, cat) ==
    IF errs = <<>> THEN <<>>
    ELSE IF Head(errs).category = cat THEN <<Head(errs)>> \o OfCategory(Tail(errs), cat)
    ELSE OfCategory(Tail(errs), cat)

RECURSIVE GroupedFrom(_, _)
GroupedFrom(errs, k) ==
    IF k > Len(CategoryOrder) THEN <<>>
    ELSE OfCategory(errs, CategoryOrder[k]) \o GroupedFrom(errs, k + 1)

format_multiple(errs) ==
    LET grouped == GroupedFrom(errs, 1)
    IN [header |-> Len(errs),
        entries |-> [i \in 1..Len(grouped) |->
                        [number |-> i,
                         context |-> grouped[i].context,
                         message |-> grouped[i].message,
                         hint |-> grouped[i].hint,
                         suggestion |-> grouped[i].suggestion]],
        total |-> Len(errs)]

\* Variant: only the first diagnostic is raised
create_multi_error_first(errs) == errs[1]

create_multi_error(errs) ==
    IF errs = <<>> THEN [category |-> "runtime", message |-> [text |-> "No errors to display"],
                         context |-> None, hint |-> None, suggestion |-> NoSuggestion]
    ELSE IF Len(errs) = 1 THEN errs[1]
    ELSE [category |-> errs[1].category,
          message |-> [text |-> "multi", report |-> format_multiple(errs)],
          context |-> None, hint |-> None, suggestion |-> NoSuggestion]

-----------------------------------------------------------------------------
(* noeta_semantic.py: SymbolTable *)

DatasetInfo(name, columns, source) ==
    [name |-> name, columns |-> columns, source |-> source]

ColumnInfo(name, dtype) == [name |-> name, dtype |-> dtype]

ColumnNames(columns) == [i \in 1..Len(columns) |-> columns[i].name]

has_column(info, col_name) == \E i \in 1..Len(info.columns) : info.columns[i].name = col_name

exists(ds, name) == \E i \in 1..Len(ds) : ds[i].name = name

lookup(ds, name) ==
    IF exists(ds, name) THEN ds[CHOOSE i \in 1..Len(ds) : ds[i].name = name] ELSE None

get_all_names(ds) == [i \in 1..Len(ds) |-> ds[i].name]

\* self.datasets[name] = info: an existing key keeps its position
DictSet(ds, name, info) ==
    IF exists(ds, name)
    THEN [i \in 1..Len(ds) |-> IF ds[i].name = name THEN info ELSE ds[i]]
    ELSE Append(ds, info)

\* Variant: a name already defined keeps the info of its first definition
define_keeping_first(tab, name, info) ==
    [datasets |-> IF exists(tab.datasets, name) THEN tab.datasets
                  ELSE Append(tab.datasets, info),
     history |-> Append(tab.history, name)]

\* Variant: the history gets a name only at its first definition
define_once(tab, name, info) ==
    [datasets |-> DictSet(tab.datasets, name, info),
     history |-> IF exists(tab.datasets, name) THEN tab.history
                 ELSE Append(tab.history, name)]

\* self.datasets[name] = info; self.history.append(name)
define(tab, name, info) ==
    [datasets |-> DictSet(tab.datasets, name, info),
     history |-> Append(tab.history, name)]

\* SymbolTable(): no datasets, no history
SymbolTable == [datasets |-> <<>>, history |-> <<>>]

\* Variant: clear forgets the history only
clear_history_only(tab) == [datasets |-> tab.datasets, history |-> <<>>]

clear(tab) == SymbolTable

-----------------------------------------------------------------------------
(* noeta_semantic.py: SemanticAnalyzer helpers *)

\* suggestions[0] if suggestions else None
FirstOrNone(suggestions) == IF suggestions # <<>> THEN suggestions[1] ELSE NoSuggestion

_suggest_dataset(ds, attempted) ==
    IF get_all_names(ds) = <<>> THEN NoSuggestion
    ELSE FirstOrNone(suggest_similar(attempted, get_all_names(ds), 1, 3))

\* Result of a check: raised with the error, or the looked-up info
_check_dataset_exists(ds, name, node) ==
    LET info == lookup(ds, name)
    IN IF info = None
       THEN [raised |-> TRUE,
             error |-> create_semantic_error(
                           [text |-> "Dataset has not been loaded or created", dataset |-> name],
                           node.line, node.column,
                           [available |-> get_all_names(ds)],
                           _suggest_dataset(ds, name)),
             info |-> None]
       ELSE [raised |-> FALSE, error |-> None, info |-> info]

_check_column_exists(dataset_info, column, node) ==
    IF dataset_info.columns = <<>> THEN [raised |-> FALSE, error |-> None]
    ELSE IF ~has_column(dataset_info, column)
    THEN [raised |-> TRUE,
          error |-> create_semantic_error(
                        [text |-> "Column does not exist in dataset",
                         column |-> column, dataset |-> dataset_info.name],
                        node.line, node.column,
                        [available |-> ColumnNames(dataset_info.columns)],
                        NoSuggestion)]
    ELSE [raised |-> FALSE, error |-> None]

\* for col in columns: self._check_column_exists(info, col, node)
RECURSIVE CheckColumns(_, _, _)
CheckColumns(dataset_info, columns, node) ==
    IF columns = <<>> THEN [raised |-> FALSE, error |-> None]
    ELSE LET c == _check_column_exists(dataset_info, Head(columns), node)
         IN IF c.raised THEN c ELSE CheckColumns(dataset_info, Tail(columns), node)

\* The file system the schema probe reads
FileExists(filepath) == filepath \in {fSales, fLocked, fEmpty}

\* pd.read_csv(filepath, ...): the exception it raises, "" when it returns
read_csv_raises(filepath) ==
    CASE filepath = fSales -> ""
      [] filepath = fLocked -> "PermissionError"
      [] filepath = fEmpty -> "EmptyDataError"
      [] OTHER -> "FileNotFoundError"
FileHeader(filepath) == IF filepath = fSales THEN <<"x", "y">> ELSE <<>>

_infer_data_type(pandas_dtype) ==
    IF pandas_dtype \in {"int64", "float64"} THEN "numeric"
    ELSE IF pandas_dtype = "datetime64" THEN "datetime"
    ELSE IF pandas_dtype = "bool" THEN "boolean"
    ELSE IF pandas_dtype \in {"object", "string"} THEN "string"
    ELSE "unknown"

\* read_csv(nrows=0) gives every header column the dtype object
_introspect_file_schema(tc, filepath, format_type) ==
    IF ~tc THEN <<>>
    ELSE IF ~FileExists(filepath) THEN <<>>
    ELSE IF format_type \in {"csv", "none"}
    THEN IF read_csv_raises(filepath) # ""
         THEN <<>>      \* except Exception: return {}
         ELSE LET hdr == FileHeader(filepath)
              IN [i \in 1..Len(hdr) |-> ColumnInfo(hdr[i], _infer_data_type("object"))]
    ELSE <<>>

-----------------------------------------------------------------------------
(* noeta_ast.py: statement nodes the parser builds.  The parser never calls *)
(* set_position, so every node keeps line = 0 and column = 0.  tree is the  *)
(* condition of a filter statement, None for the other statements.         *)

Node(kind, src, cols, alias, file) ==
    [kind |-> kind, src |-> src, cols |-> cols, alias |-> alias, file |-> file,
     tree |-> None, line |-> 0, column |-> 0]

\* Condition nodes: the operator and the operands in order
BinaryConditionNode(left, operator, right) ==
    [kind |-> "BinaryConditionNode", op |-> operator, args |-> <<left, right>>]
NotConditionNode(condition) ==
    [kind |-> "NotConditionNode", op |-> "not", args |-> <<condition>>]
ComparisonNode(left, operator, right) ==
    [kind |-> "ComparisonNode", op |-> operator, args |-> <<left, right>>]

LoadNode(filepath, alias)            == Node("LoadNode", <<>>, <<>>, alias, filepath)
SelectNode(source, columns, alias)   == Node("SelectNode", <<source>>, columns, alias, <<>>)
UpdatedFilterNode(source, cols, alias) == Node("UpdatedFilterNode", <<source>>, cols, alias, <<>>)
JoinNode(a1, a2, col, alias)         == Node("JoinNode", <<a1, a2>>, <<col>>, alias, <<>>)
DescribeNode(source)                 == Node("DescribeNode", <<source>>, <<>>, NoAlias, <<>>)
HeadNode(source, alias)              == Node("HeadNode", <<source>>, <<>>, alias, <<>>)
SaveCSVNode(source, filepath)        == Node("SaveCSVNode", <<source>>, <<>>, NoAlias, filepath)
\* mutate source {column: "1"} as alias: cols is the one new column
MutateNode(source, column, alias)    == Node("MutateNode", <<source>>, <<column>>, alias, <<>>)
UnionNode(left, right, alias)        == Node("UnionNode", <<left, right>>, <<>>, alias, <<>>)
\* show alias: the alias is read, none is declared
ShowNode(alias)                      == Node("ShowNode", <<alias>>, <<>>, NoAlias, <<>>)
FillMeanNode(source, column, alias)  == Node("FillMeanNode", <<source>>, <<column>>, alias, <<>>)
GroupByNode(source, columns, alias)  == Node("GroupByNode", <<source>>, columns, alias, <<>>)
\* pivot source index="x" columns="y" values="x" as alias
PivotNode(source, alias)             == Node("PivotNode", <<source>>, <<"x", "y">>, alias, <<>>)

-----------------------------------------------------------------------------
(* noeta_semantic.py: visitors.  A visitor returns the symbol table it     *)
(* leaves and, when it raised, the NoetaError.                              *)

Raised(err, tab) == [raised |-> TRUE, error |-> err, tab |-> tab]
Returned(tab) == [raised |-> FALSE, error |-> None, tab |-> tab]

Op(op, from) == [op |-> op, from |-> from]

\* Variant: a file the probe cannot read is reported
visit_LoadNode_strict(node, tab, tc) ==
    IF tc /\ read_csv_raises(node.file) # ""
    THEN Raised(create_semantic_error(
                    [text |-> "File cannot be read", dataset |-> node.alias],
                    node.line, node.column,
                    [available |-> get_all_names(tab.datasets)], NoSuggestion), tab)
    ELSE Returned(define(tab, node.alias,
                         DatasetInfo(node.alias,
                                     _introspect_file_schema(tc, node.file, "none"),
                                     Op("file", node.file))))

visit_LoadNode(node, tab, tc) ==
    LET columns == _introspect_file_schema(tc, node.file, "none")
    IN Returned(define(tab, node.alias, DatasetInfo(node.alias, columns, Op("file", node.file))))

visit_SaveNode(node, tab, tc) ==
    LET c == _check_dataset_exists(tab.datasets, node.src[1], node)
    IN IF c.raised THEN Raised(c.error, tab) ELSE Returned(tab)

\* result_columns of visit_SelectNode: the selected columns the source has
RECURSIVE SelectedColumns(_, _)
SelectedColumns(source_info, columns) ==
    IF columns = <<>> THEN <<>>
    ELSE LET col == Head(columns)
             rest == SelectedColumns(source_info, Tail(columns))
         IN IF has_column(source_info, col)
            THEN <<source_info.columns[CHOOSE i \in 1..Len(source_info.columns) :
                                          source_info.columns[i].name = col]>> \o
                 rest
            ELSE rest

\* dict built by repeated result_columns[col] = ...: a repeated key stays once
RECURSIVE DedupColumns(_)
DedupColumns(columns) ==
    IF columns = <<>> THEN <<>>
    ELSE LET init == DedupColumns(SubSeq(columns, 1, Len(columns) - 1))
             last == columns[Len(columns)]
         IN IF \E i \in 1..Len(init) : init[i].name = last.name THEN init
            ELSE Append(init, last)

visit_SelectNode(node, tab, tc) ==
    LET c == _check_dataset_exists(tab.datasets, node.src[1], node)
    IN IF c.raised THEN Raised(c.error, tab)
       ELSE LET source_info == c.info
                cc == IF source_info.columns # <<>>
                      THEN CheckColumns(source_info, node.cols, node)
                      ELSE [raised |-> FALSE, error |-> None]
            IN IF cc.raised THEN Raised(cc.error, tab)
               ELSE LET result_columns ==
                            IF source_info.columns # <<>>
                            THEN DedupColumns(SelectedColumns(source_info, node.cols))
                            ELSE <<>>
                    IN IF node.alias # NoAlias
                       THEN Returned(define(tab, node.alias,
                                DatasetInfo(node.alias, result_columns,
                                            Op("select", node.src[1]))))
                       ELSE Returned(tab)

visit_UpdatedFilterNode(node, tab, tc) ==
    LET c == _check_dataset_exists(tab.datasets, node.src[1], node)
    IN IF c.raised THEN Raised(c.error, tab)
       ELSE IF node.alias # NoAlias
       THEN Returned(define(tab, node.alias,
                DatasetInfo(node.alias, c.info.columns, Op("filter", node.src[1]))))
       ELSE Returned(tab)

visit_JoinNode(node, tab, tc) ==
    LET l == _check_dataset_exists(tab.datasets, node.src[1], node)
    IN IF l.raised THEN Raised(l.error, tab)
       ELSE LET r == _check_dataset_exists(tab.datasets, node.src[2], node)
            IN IF r.raised THEN Raised(r.error, tab)
               ELSE LET lc == IF l.info.columns # <<>>
                              THEN _check_column_exists(l.info, node.cols[1], node)
                              ELSE [raised |-> FALSE, error |-> None]
                    IN IF lc.raised THEN Raised(lc.error, tab)
                       ELSE LET rc == IF r.info.columns # <<>>
                                      THEN _check_column_exists(r.info, node.cols[1], node)
                                      ELSE [raised |-> FALSE, error |-> None]
                            IN IF rc.raised THEN Raised(rc.error, tab)
                               ELSE IF node.alias # NoAlias
                               THEN Returned(define(tab, node.alias,
                                        DatasetInfo(node.alias, <<>>,
                                            [op |-> "join", from |-> node.src[1],
                                             with |-> node.src[2]])))
                               ELSE Returned(tab)

visit_DescribeNode(node, tab, tc) ==
    LET c == _check_dataset_exists(tab.datasets, node.src[1], node)
    IN IF c.raised THEN Raised(c.error, tab) ELSE Returned(tab)

visit_HeadNode(node, tab, tc) ==
    LET c == _check_dataset_exists(tab.datasets, node.src[1], node)
    IN IF c.raised THEN Raised(c.error, tab)
       ELSE IF node.alias # NoAlias
       THEN Returned(define(tab, node.alias,
                DatasetInfo(node.alias, c.info.columns, Op("head", node.src[1]))))
       ELSE Returned(tab)

\* Grouping columns are validated; the result's columns depend on the
\* aggregation and are left unknown
visit_GroupByNode(node, tab, tc) ==
    LET c == _check_dataset_exists(tab.datasets, node.src[1], node)
    IN IF c.raised THEN Raised(c.error, tab)
       ELSE LET cc == IF c.info.columns # <<>>
                      THEN CheckColumns(c.info, node.cols, node)
                      ELSE [raised |-> FALSE, error |-> None]
            IN IF cc.raised THEN Raised(cc.error, tab)
               ELSE IF node.alias # NoAlias
               THEN Returned(define(tab, node.alias,
                        DatasetInfo(node.alias, <<>>, Op("groupby", node.src[1]))))
               ELSE Returned(tab)

\* columns={}: the schema changes with pivot
visit_PivotNode(node, tab, tc) ==
    LET c == _check_dataset_exists(tab.datasets, node.src[1], node)
    IN IF c.raised THEN Raised(c.error, tab)
       ELSE IF node.alias # NoAlias
       THEN Returned(define(tab, node.alias,
                DatasetInfo(node.alias, <<>>, Op("pivot", node.src[1]))))
       ELSE Returned(tab)

visit_ShowNode(node, tab, tc) ==
    LET c == _check_dataset_exists(tab.datasets, node.src[1], node)
    IN IF c.raised THEN Raised(c.error, tab) ELSE Returned(tab)

\* TODO in the code: the added column is not tracked
visit_MutateNode(node, tab, tc) ==
    LET c == _check_dataset_exists(tab.datasets, node.src[1], node)
    IN IF c.raised THEN Raised(c.error, tab)
       ELSE IF node.alias # NoAlias
       THEN Returned(define(tab, node.alias,
                DatasetInfo(node.alias, c.info.columns, Op("mutate", node.src[1]))))
       ELSE Returned(tab)

\* No explicit visitor for the node type: nothing is validated
generic_visit(node, tab, tc) == Returned(tab)

\* getattr(self, 'visit_' + class name, self.generic_visit): SaveCSVNode has
\* no visit_SaveCSVNode in the analyzer
visit(node, tab, tc) ==
    CASE node.kind = "LoadNode" -> visit_LoadNode(node, tab, tc)
      [] node.kind = "SaveNode" -> visit_SaveNode(node, tab, tc)
      [] node.kind = "SelectNode" -> visit_SelectNode(node, tab, tc)
      [] node.kind = "UpdatedFilterNode" -> visit_UpdatedFilterNode(node, tab, tc)
      [] node.kind = "JoinNode" -> visit_JoinNode(node, tab, tc)
      [] node.kind = "DescribeNode" -> visit_DescribeNode(node, tab, tc)
      [] node.kind = "HeadNode" -> visit_HeadNode(node, tab, tc)
      [] node.kind = "MutateNode" -> visit_MutateNode(node, tab, tc)
      [] node.kind = "ShowNode" -> visit_ShowNode(node, tab, tc)
      [] node.kind = "GroupByNode" -> visit_GroupByNode(node, tab, tc)
      [] node.kind = "PivotNode" -> visit_PivotNode(node, tab, tc)
      [] OTHER -> generic_visit(node, tab, tc)

-----------------------------------------------------------------------------
(* noeta_codegen.py.  Each visitor emits one template: bind-and-report when *)
(* a result alias is declared, else render.                                 *)

Bind(node) ==
    [form |-> "bind", target |-> node.alias, op |-> node.kind, src |-> node.src,
     cols |-> node.cols, file |-> node.file]
Render(node) ==
    [form |-> "render", target |-> NoAlias, op |-> node.kind, src |-> node.src,
     cols |-> node.cols, file |-> node.file]

\* node.alias in self.symbol_table or (self.persistent_symbol_table and
\* self.persistent_symbol_table.exists(node.alias))
alias_exists(node, g) ==
    \/ node.src[1] \in g.symbol_table
    \/ g.persistent.given /\ exists(g.persistent.datasets, node.src[1])

\* One statement of CodeGenerator.visit: g is [code_lines, symbol_table,
\* persistent, raised]; visit_LoadNode records no alias
gen_visit(node, g) ==
    CASE node.kind = "LoadNode" ->
            [g EXCEPT !.code_lines = Append(@, Bind(node))]
      [] node.kind = "ShowNode" ->
            IF alias_exists(node, g)
            THEN [g EXCEPT !.code_lines = Append(@, Render(node))]
            ELSE [g EXCEPT !.raised = "ValueError"]
      [] node.kind \in {"UnionNode", "FillMeanNode", "PivotNode"} ->
            [g EXCEPT !.code_lines = Append(@, Bind(node)),
                      !.symbol_table = @ \cup {node.alias}]
      [] node.kind \in {"SelectNode", "UpdatedFilterNode", "JoinNode", "HeadNode",
                        "MutateNode", "GroupByNode"} ->
            IF node.alias # NoAlias
            THEN [g EXCEPT !.code_lines = Append(@, Bind(node)),
                           !.symbol_table = @ \cup {node.alias}]
            ELSE [g EXCEPT !.code_lines = Append(@, Render(node))]
      [] node.kind \in {"DescribeNode", "SaveCSVNode", "SaveJSONNode", "SaveExcelNode",
                        "SaveParquetNode"} ->
            [g EXCEPT !.code_lines = Append(@, Render(node))]
      [] OTHER -> [g EXCEPT !.raised = "NotImplementedError"]

RECURSIVE GenerateFrom(_, _)
GenerateFrom(stmts, g) ==
    IF stmts = <<>> \/ g.raised # "" THEN g
    ELSE GenerateFrom(Tail(stmts), gen_visit(Head(stmts), g))

\* generate: the import lines added to the set self.imports before the visits
StandardImports ==
    {"import pandas as pd", "import numpy as np", "import matplotlib.pyplot as plt",
     "import seaborn as sns", "from scipy import stats"}

\* CodeGenerator(persistent_symbol_table=symbol_table).generate(ast)
generate(stmts, given, ds) ==
    GenerateFrom(stmts, [code_lines |-> <<>>, symbol_table |-> {}, raised |-> "",
                         persistent |-> [given |-> given, datasets |-> ds]])

\* The orders in which iterating a set of strings can yield its members: the
\* order depends on the string hashes, which differ from process to process
RECURSIVE Iterations(_)
Iterations(lines) ==
    IF lines = {} THEN {<<>>}
    ELSE UNION {{<<line>> \o rest : rest \in Iterations(lines \ {line})} : line \in lines}

\* The import lines in ascending str order (compared by code point)
CodePointOrder ==
    <<"from scipy import stats", "import matplotlib.pyplot as plt", "import numpy as np",
      "import pandas as pd", "import seaborn as sns">>

StrLess(a, b) ==
    \E i, j \in 1..Len(CodePointOrder) :
        CodePointOrder[i] = a /\ CodePointOrder[j] = b /\ i < j

\* Variant: the lines are joined in the order the set yields them
sorted_as_iterated(iterated) == iterated

\* sorted(self.imports)
RECURSIVE sorted(_)
sorted(iterated) ==
    IF iterated = <<>> THEN <<>>
    ELSE LET rest == sorted(Tail(iterated))
             before == SelectSeq(rest, LAMBDA line : StrLess(line, Head(iterated)))
             after == SelectSeq(rest, LAMBDA line : ~StrLess(line, Head(iterated)))
         IN before \o <<Head(iterated)>> \o after

\* sorted(self.imports) for every order the set can be iterated in; no
\* statement of the model adds an import to the standard ones
SortedImports == {sorted(iterated) : iterated \in Iterations(StandardImports)}

-----------------------------------------------------------------------------
(* noeta_runner.py: compile_noeta *)

NoResult == [kind |-> "none"]
\* "\n".join(sorted(self.imports)) followed by the code lines
ReturnText(imports, code) == [kind |-> "text", imports |-> imports, code |-> code]
\* except NoetaError: raise
RaiseNoeta(err) == [kind |-> "raise", exc |-> "NoetaError", error |-> err]
\* except Exception as e: raise RuntimeError(...)
RaiseRuntime(cause) == [kind |-> "raise", exc |-> "RuntimeError", cause |-> cause]

\* except NoetaError as e: self.errors.append(e); the table is as the
\* visitor left it
Collect(r) ==
    /\ datasets' = r.tab.datasets
    /\ history' = r.tab.history
    /\ errors' = IF r.raised THEN Append(errors, r.error) ELSE errors

\* Variant: the loop stops at the first diagnostic
Visit_stop_at_first ==
    /\ pc = "analyze"
    /\ idx < Len(prog)
    /\ Collect(visit(prog[idx + 1], [datasets |-> datasets, history |-> history],
                     enable_type_check))
    /\ idx' = IF errors' # errors THEN Len(prog) ELSE idx + 1
    /\ UNCHANGED <<carried, supplied, enable_type_check, prog, pc, result, namespace, cells>>
    /\ UNCHANGED frontvars

\* One iteration of the loop of SemanticAnalyzer.analyze
Visit ==
    /\ pc = "analyze"
    /\ idx < Len(prog)
    /\ Collect(visit(prog[idx + 1], [datasets |-> datasets, history |-> history],
                     enable_type_check))
    /\ idx' = idx + 1
    /\ UNCHANGED <<carried, supplied, enable_type_check, prog, pc, result, namespace, cells>>
    /\ UNCHANGED frontvars

\* if errors: raise errors[0] if len(errors) == 1 else create_multi_error(errors)
RaiseErrors ==
    /\ pc = "analyze"
    /\ idx = Len(prog)
    /\ errors # <<>>
    /\ result' = RaiseNoeta(IF Len(errors) = 1 THEN errors[1] ELSE create_multi_error(errors))
    /\ pc' = "raised"
    /\ UNCHANGED <<datasets, history, carried, supplied, enable_type_check, prog, idx,
                   errors, namespace, cells>>
    /\ UNCHANGED frontvars

\* What compile_noeta makes of generate's outcome; the text is the one
\* built for whichever order the import set is iterated in
Finish(g) ==
    IF g.raised # ""
    THEN /\ result' = RaiseRuntime(g.raised)
         /\ pc' = "raised"
    ELSE /\ result' \in {ReturnText(imports, g.code_lines) : imports \in SortedImports}
         /\ pc' = "returned"

\* generator.generate(ast); return python_code
Generate ==
    /\ pc = "analyze"
    /\ idx = Len(prog)
    /\ errors = <<>>
    /\ Finish(generate(prog, carried, datasets))
    /\ UNCHANGED <<datasets, history, carried, supplied, enable_type_check, prog, idx,
                   errors, namespace, cells>>
    /\ UNCHANGED frontvars

-----------------------------------------------------------------------------
(* Inputs of one compile_noeta call *)

Stmts ==
    {LoadNode(f, a) : f \in {fSales, fMissing}, a \in {nD, nDat}}
    \cup {DescribeNode(s) : s \in {nD, nDat, nData, nZ}}
    \cup {ShowNode(nD)}
    \cup {SaveCSVNode(s, <<"o", ".", "c", "s", "v">>) : s \in {nD, nData, nZ}}
    \cup {HeadNode(s, a) : s \in {nD, nZ}, a \in {NoAlias, nData}}
    \cup {SelectNode(nD, <<c>>, a) : c \in {"x", "w"}, a \in {NoAlias, nDat}}
    \cup {UpdatedFilterNode(nD, <<"w">>, a) : a \in {NoAlias, nDat}}
    \cup {JoinNode(p[1], p[2], "x", NoAlias) :
            p \in {<<nD, nDat>>, <<nZ, nDat>>, <<nD, nZ>>, <<nZ, nData>>}}

RECURSIVE SeqsUpTo(_, _)
SeqsUpTo(S, n) ==
    IF n = 0 THEN {<<>>}
    ELSE LET shorter == SeqsUpTo(S, n - 1)
         IN shorter \cup {Append(q, e) : q \in {t \in shorter : Len(t) = n - 1}, e \in S}

Programs == SeqsUpTo(Stmts, MaxStmts)

\* Symbol tables a caller can carry into the call: schemas learnt from a
\* type-checked load or from the runtime
KnownXY == <<ColumnInfo("x", "string"), ColumnInfo("y", "string")>>

CarriedTables ==
    { [datasets |-> <<DatasetInfo(nD, KnownXY, Op("file", fSales))>>,
       history |-> <<nD>>],
      [datasets |-> <<DatasetInfo(nDat, <<>>, Op("file", fMissing)),
                      DatasetInfo(nData, <<ColumnInfo("x", "string")>>, Op("select", nDat))>>,
       history |-> <<nDat, nData>>] }

\* Lexer(source): pos = 0, line = 1, column = 1
LexerInit == [pos |-> 0, line |-> 1, column |-> 1]

\* The program is given as its syntax tree: no text, no tokens
NoFrontEnd ==
    /\ source_code = <<>>
    /\ lexer = LexerInit
    /\ tokens = <<>>
    /\ ppos = 0
    /\ earlier = NoResult
    /\ calls = <<>>

Init ==
    /\ prog \in Programs
    /\ carried \in BOOLEAN
    /\ enable_type_check \in BOOLEAN
    /\ \E tab \in (IF carried THEN CarriedTables ELSE {SymbolTable}) :
          /\ datasets = tab.datasets
          /\ history = tab.history
          /\ supplied = tab
    /\ idx = 0
    /\ errors = <<>>
    /\ pc = "analyze"
    /\ result = NoResult
    /\ namespace = <<>>
    /\ cells = 0
    /\ NoFrontEnd

Next == Visit \/ RaiseErrors \/ Generate

Spec == Init /\ [][Next]_vars

-----------------------------------------------------------------------------
(* A SymbolTable used directly: any sequence of define and clear *)

MaxCalls == 4

DefineCall(name, info) == [method |-> "define", name |-> name, info |-> info]
ClearCall == [method |-> "clear"]

\* table.define(name, info)
Define ==
    /\ pc = "table"
    /\ Len(calls) < MaxCalls
    /\ \E name \in {nD, nDat}, columns \in {<<>>, KnownXY} :
          LET info == DatasetInfo(name, columns, Op("file", fSales))
              tab == define([datasets |-> datasets, history |-> history], name, info)
          IN /\ datasets' = tab.datasets
             /\ history' = tab.history
             /\ calls' = Append(calls, DefineCall(name, info))
    /\ UNCHANGED <<carried, supplied, enable_type_check, prog, idx, errors, pc, result,
                   namespace, cells, source_code, lexer, tokens, ppos, earlier>>

\* table.clear()
ClearTable ==
    /\ pc = "table"
    /\ Len(calls) < MaxCalls
    /\ datasets' = clear([datasets |-> datasets, history |-> history]).datasets
    /\ history' = clear([datasets |-> datasets, history |-> history]).history
    /\ calls' = Append(calls, ClearCall)
    /\ UNCHANGED <<carried, supplied, enable_type_check, prog, idx, errors, pc, result,
                   namespace, cells, source_code, lexer, tokens, ppos, earlier>>

\* table = SymbolTable()
TableInit ==
    /\ datasets = SymbolTable.datasets
    /\ history = SymbolTable.history
    /\ supplied = SymbolTable
    /\ carried = FALSE
    /\ enable_type_check = FALSE
    /\ prog = <<>>
    /\ idx = 0
    /\ errors = <<>>
    /\ pc = "table"
    /\ result = NoResult
    /\ namespace = <<>>
    /\ cells = 0
    /\ NoFrontEnd

TableNext == Define \/ ClearTable

SpecTable == TableInit /\ [][TableNext]_vars

-----------------------------------------------------------------------------
(* The same program compiled a second time *)

\* compile_noeta is called again on the input of the call that returned: it
\* constructs a new analyzer and a new generator, and is handed a symbol
\* table as fresh as the first call's
CompileAgain ==
    /\ pc = "returned"
    /\ earlier = NoResult
    /\ earlier' = result
    /\ datasets' = SymbolTable.datasets
    /\ history' = SymbolTable.history
    /\ idx' = 0
    /\ errors' = <<>>
    /\ result' = NoResult
    /\ pc' = "analyze"
    /\ UNCHANGED <<carried, supplied, enable_type_check, prog, namespace, cells,
                   source_code, lexer, tokens, ppos, calls>>

\* symbol_table is None or a newly constructed SymbolTable()
TwiceInit ==
    /\ prog \in Programs
    /\ carried \in BOOLEAN
    /\ enable_type_check \in BOOLEAN
    /\ datasets = SymbolTable.datasets
    /\ history = SymbolTable.history
    /\ supplied = SymbolTable
    /\ idx = 0
    /\ errors = <<>>
    /\ pc = "analyze"
    /\ result = NoResult
    /\ namespace = <<>>
    /\ cells = 0
    /\ NoFrontEnd

TwiceNext == Visit \/ RaiseErrors \/ Generate \/ CompileAgain

SpecTwice == TwiceInit /\ [][TwiceNext]_vars

\* compile_noeta on programs of statements that declare a result alias, one
\* of each way the analyzer registers a schema, and of statements without one
SchemaStmts ==
    {LoadNode(fSales, nD), DescribeNode(nDat)}
    \cup {HeadNode(s, nDat) : s \in {nD, nData}}
    \cup {UpdatedFilterNode(s, <<"x">>, nDat) : s \in {nD, nData}}
    \cup {SelectNode(s, <<c>>, nDat) : s \in {nD, nData}, c \in {"x", "y"}}
    \cup {FillMeanNode(s, "x", nDat) : s \in {nD, nData}}
    \cup {GroupByNode(s, <<"x">>, nDat) : s \in {nD, nData}}
    \cup {PivotNode(s, nDat) : s \in {nD, nData}}
    \cup {HeadNode(nD, NoAlias), FillMeanNode(nD, "x", NoAlias), PivotNode(nD, NoAlias)}
    \cup {LoadNode(f, nData) : f \in {fMissing, fLocked, fEmpty}}

SchemaInit ==
    /\ prog \in SeqsUpTo(SchemaStmts, MaxStmts)
    /\ carried \in BOOLEAN
    /\ enable_type_check \in BOOLEAN
    /\ \E tab \in (IF carried THEN CarriedTables ELSE {SymbolTable}) :
          /\ datasets = tab.datasets
          /\ history = tab.history
          /\ supplied = tab
    /\ idx = 0
    /\ errors = <<>>
    /\ pc = "analyze"
    /\ result = NoResult
    /\ namespace = <<>>
    /\ cells = 0
    /\ NoFrontEnd

SpecSchema == SchemaInit /\ [][Next]_vars

-----------------------------------------------------------------------------
(* noeta_kernel.py: a notebook session.  The kernel owns one symbol table  *)
(* and one runtime namespace and hands the table to every compilation.     *)

\* SemanticAnalyzer.analyze as one call: the table it leaves and its errors
Absorb(r, a) ==
    [tab |-> r.tab, errors |-> IF r.raised THEN Append(a.errors, r.error) ELSE a.errors]

RECURSIVE AnalyzeFrom(_, _, _)
AnalyzeFrom(stmts, a, tc) ==
    IF stmts = <<>> THEN a
    ELSE AnalyzeFrom(Tail(stmts), Absorb(visit(Head(stmts), a.tab, tc), a), tc)

analyze(stmts, tab, tc) == AnalyzeFrom(stmts, [tab |-> tab, errors |-> <<>>], tc)

\* A DataFrame bound in the namespace: its name and its column names
Frame(name, cols) == [name |-> name, cols |-> cols, type |-> "DataFrame"]

\* The generated text begins with the imports of generate(): each binds a
\* module, which is no DataFrame
Module(name) == [name |-> name, cols |-> <<>>, type |-> "module"]

Imports == << <<"n", "p">>, <<"p", "d">>, <<"p", "l", "t">>, <<"s", "n", "s">>,
              <<"s", "t", "a", "t", "s">> >>

RECURSIVE Import(_, _)
Import(names, ns) ==
    IF names = <<>> THEN ns
    ELSE Import(Tail(names), DictSet(ns, Head(names), Module(Head(names))))

Columns(ns, name) == lookup(ns, name).cols

Failed(x, ename) == [x EXCEPT !.raised = ename]

Assign(x, line, cols) ==
    IF line.form = "bind"
    THEN [x EXCEPT !.ns = DictSet(@, line.target, Frame(line.target, cols))]
    ELSE x

\* Columns of b appended to those of a, each once
Unite(a, b) == a \o SelectSeq(b, LAMBDA c : c \notin SeqToSet(a))

\* What Python does with the text of one generated statement
exec_line(line, x) ==
    CASE line.op = "LoadNode" ->
            IF read_csv_raises(line.file) = ""
            THEN Assign(x, line, FileHeader(line.file))
            ELSE Failed(x, read_csv_raises(line.file))
      [] line.op = "UpdatedFilterNode" /\ line.form = "render" -> x
      [] line.op = "JoinNode" ->
            IF \E k \in 1..2 : ~exists(x.ns, line.src[k]) THEN Failed(x, "NameError")
            ELSE IF \E k \in 1..2 : line.cols[1] \notin SeqToSet(Columns(x.ns, line.src[k]))
            THEN Failed(x, "KeyError")
            ELSE Assign(x, line, Columns(x.ns, line.src[1]))
      [] line.op = "UnionNode" ->
            IF \E k \in 1..2 : ~exists(x.ns, line.src[k]) THEN Failed(x, "NameError")
            ELSE Assign(x, line, Unite(Columns(x.ns, line.src[1]), Columns(x.ns, line.src[2])))
      [] line.op = "MutateNode" ->
            IF ~exists(x.ns, line.src[1]) THEN Failed(x, "NameError")
            ELSE Assign(x, line, Unite(Columns(x.ns, line.src[1]), line.cols))
      [] OTHER ->
            IF ~exists(x.ns, line.src[1]) THEN Failed(x, "NameError")
            ELSE IF ~(SeqToSet(line.cols) \subseteq SeqToSet(Columns(x.ns, line.src[1])))
            THEN Failed(x, "KeyError")
            ELSE Assign(x, line, IF line.op = "SelectNode" THEN line.cols
                                 ELSE Columns(x.ns, line.src[1]))

\* exec(python_code, self.namespace): stops at the first statement that raises
RECURSIVE ExecFrom(_, _)
ExecFrom(lines, x) ==
    IF lines = <<>> \/ x.raised # "" THEN x
    ELSE ExecFrom(Tail(lines), exec_line(Head(lines), x))

exec(code_lines, ns) == ExecFrom(code_lines, [ns |-> Import(Imports, ns), raised |-> ""])

\* SymbolTable._infer_data_type: a CSV header column read as text is object
SymbolTable_infer_data_type(pandas_dtype) ==
    IF pandas_dtype \in {"int64", "float64"} THEN "numeric"
    ELSE IF pandas_dtype = "datetime64" THEN "datetime"
    ELSE IF pandas_dtype = "bool" THEN "boolean"
    ELSE IF pandas_dtype \in {"object", "string"} THEN "string"
    ELSE "unknown"

RuntimeInfo(frame) ==
    DatasetInfo(frame.name,
                [i \in 1..Len(frame.cols) |->
                    ColumnInfo(frame.cols[i], SymbolTable_infer_data_type("object"))],
                Op("runtime", frame.name))

\* Variant: every DataFrame of the namespace is registered anew
RECURSIVE sync_overwriting(_, _)
sync_overwriting(tab, ns) ==
    IF ns = <<>> THEN tab
    ELSE sync_overwriting(
             IF Head(ns).type = "DataFrame"
             THEN define(tab, Head(ns).name, RuntimeInfo(Head(ns)))
             ELSE tab,
             Tail(ns))

\* DataFrames of the namespace the table does not hold yet are registered
RECURSIVE sync_from_namespace(_, _)
sync_from_namespace(tab, ns) ==
    IF ns = <<>> THEN tab
    ELSE sync_from_namespace(
             IF Head(ns).type = "DataFrame" /\ ~exists(tab.datasets, Head(ns).name)
             THEN define(tab, Head(ns).name, RuntimeInfo(Head(ns)))
             ELSE tab,
             Tail(ns))

StatusOk == [kind |-> "ok"]
StatusError(ename) == [kind |-> "error", ename |-> ename]

Outcome(tab, ns, errs, status) == [tab |-> tab, ns |-> ns, errors |-> errs, status |-> status]

AfterExec(x, tab) ==
    IF x.raised # "" THEN Outcome(tab, x.ns, <<>>, StatusError(x.raised))
    ELSE Outcome(sync_from_namespace(tab, x.ns), x.ns, <<>>, StatusOk)

AfterGenerate(g, tab, ns) ==
    IF g.raised # "" THEN Outcome(tab, ns, <<>>, StatusError("RuntimeError"))
    ELSE AfterExec(exec(g.code_lines, ns), tab)

AfterAnalyze(a, code, ns) ==
    IF a.errors # <<>> THEN Outcome(a.tab, ns, a.errors, StatusError("NoetaError"))
    ELSE AfterGenerate(generate(code, TRUE, a.tab.datasets), a.tab, ns)

\* try: compile_noeta(code, symbol_table=self.symbol_table); exec; sync
RunCell(code, tab, ns) == AfterAnalyze(analyze(code, tab, FALSE), code, ns)

Reply(o) ==
    /\ datasets' = o.tab.datasets
    /\ history' = o.tab.history
    /\ namespace' = o.ns
    /\ errors' = o.errors
    /\ result' = o.status

\* NoetaKernel.do_execute on one cell
do_execute(code) ==
    /\ cells < MaxCells
    /\ cells' = cells + 1
    /\ prog' = code
    /\ pc' = "executed"
    /\ IF code = <<>>
       THEN /\ result' = StatusOk
            /\ errors' = <<>>
            /\ UNCHANGED <<datasets, history, namespace>>
       ELSE Reply(RunCell(code, [datasets |-> datasets, history |-> history], namespace))
    /\ UNCHANGED <<carried, supplied, enable_type_check, idx>>
    /\ UNCHANGED frontvars

\* self.symbol_table.clear()
Clear ==
    /\ datasets' = clear([datasets |-> datasets, history |-> history]).datasets
    /\ history' = clear([datasets |-> datasets, history |-> history]).history
    /\ pc' = "cleared"
    /\ UNCHANGED <<carried, supplied, enable_type_check, prog, idx, errors, result,
                   namespace, cells>>
    /\ UNCHANGED frontvars

\* The cells a user runs
SessionCells ==
    { <<>>,
      <<LoadNode(fSales, nD)>>,
      <<LoadNode(fMissing, nDat)>>,
      <<HeadNode(nD, nData)>>,
      <<DescribeNode(nData)>>,
      <<DescribeNode(nD)>>,
      <<SaveCSVNode(nD, <<"o", ".", "c", "s", "v">>)>>,
      <<DescribeNode(nZ), LoadNode(fSales, nDat)>>,
      <<SelectNode(nD, <<"x">>, nDat), SaveCSVNode(nDat, <<"o", ".", "c", "s", "v">>)>>,
      <<JoinNode(nD, nDat, "x", nData)>>,
      <<UnionNode(nD, nD, nDat)>>,
      <<MutateNode(nDat, "z", nData)>> }

SessionInit ==
    /\ datasets = SymbolTable.datasets
    /\ history = SymbolTable.history
    /\ namespace = <<>>
    /\ cells = 0
    /\ prog = <<>>
    /\ errors = <<>>
    /\ result = NoResult
    /\ pc = "idle"
    /\ carried = TRUE
    /\ supplied = SymbolTable
    /\ enable_type_check = FALSE
    /\ idx = 0
    /\ NoFrontEnd

SessionNext == (\E code \in SessionCells : do_execute(code)) \/ Clear

SpecSession == SessionInit /\ [][SessionNext]_vars

-----------------------------------------------------------------------------
(* noeta_lexer.py.  lx is the lexer's position [pos, line, column]; pos is  *)
(* 0-based as in the code, the text is indexed from 1.                     *)

\* current_char() is None at the end of the text
NoChar == ""

Digits == {"0", "1", "2", "3", "4", "5", "6", "7", "8", "9"}
DigitChars == <<"0", "1", "2", "3", "4", "5", "6", "7", "8", "9">>

isdigit(c) == c \in Digits
isalpha(c) == c \in SeqToSet(UpperLetters) \cup SeqToSet(LowerLetters)
isalnum(c) == isalpha(c) \/ isdigit(c)

\* Token values: text, int, float, bool or None
StrValue(chars) == [str |-> chars]
IntValue(n) == [int |-> n]
FloatValue(whole, frac) == [float |-> <<whole, frac>>]
BoolValue(b) == [bool |-> b]

Token(type, value, line, column) ==
    [type |-> type, value |-> value, line |-> line, column |-> column]

current_char(src, lx) == IF lx.pos >= Len(src) THEN NoChar ELSE src[lx.pos + 1]

peek_char(src, lx) == IF lx.pos + 1 >= Len(src) THEN NoChar ELSE src[lx.pos + 2]

advance(src, lx) ==
    IF lx.pos < Len(src) /\ src[lx.pos + 1] = "\n"
    THEN [pos |-> lx.pos + 1, line |-> lx.line + 1, column |-> 1]
    ELSE [pos |-> lx.pos + 1, line |-> lx.line, column |-> lx.column + 1]

RECURSIVE skip_whitespace(_, _)
skip_whitespace(src, lx) ==
    IF current_char(src, lx) \in {" ", "\t", "\r"}
    THEN skip_whitespace(src, advance(src, lx))
    ELSE lx

RECURSIVE skip_comment(_, _)
skip_comment(src, lx) ==
    IF current_char(src, lx) # NoChar /\ current_char(src, lx) # "\n"
    THEN skip_comment(src, advance(src, lx))
    ELSE lx

\* The loops of the readers: the position reached and the text collected
Read(lx, value) == [lx |-> lx, value |-> value]

RECURSIVE read_string_from(_, _, _)
read_string_from(src, lx, value) ==
    IF current_char(src, lx) # NoChar /\ current_char(src, lx) # "\""
    THEN IF current_char(src, lx) = "\\" /\ peek_char(src, lx) = "\""
         THEN read_string_from(src, advance(src, advance(src, lx)), Append(value, "\""))
         ELSE read_string_from(src, advance(src, lx), Append(value, current_char(src, lx)))
    ELSE Read(IF current_char(src, lx) = "\"" THEN advance(src, lx) ELSE lx, value)

\* Skips the opening quote; a missing closing quote ends the literal at the
\* end of the text
read_string(src, lx) == read_string_from(src, advance(src, lx), <<>>)

RECURSIVE read_number_from(_, _, _)
read_number_from(src, lx, value) ==
    IF current_char(src, lx) # NoChar
       /\ (isdigit(current_char(src, lx)) \/ current_char(src, lx) = ".")
    THEN read_number_from(src, advance(src, lx), Append(value, current_char(src, lx)))
    ELSE Read(lx, value)

DigitValue(c) == (CHOOSE i \in 1..Len(DigitChars) : DigitChars[i] = c) - 1

\* int(value) on a text of digits
RECURSIVE IntOf(_)
IntOf(value) ==
    IF value = <<>> THEN 0
    ELSE 10 * IntOf(SubSeq(value, 1, Len(value) - 1)) + DigitValue(value[Len(value)])

RECURSIVE StripZeros(_)
StripZeros(value) ==
    IF value # <<>> /\ value[Len(value)] = "0"
    THEN StripZeros(SubSeq(value, 1, Len(value) - 1))
    ELSE value

Dots(value) == {i \in 1..Len(value) : value[i] = "."}

\* float(value) on a text of digits and dots that starts with a digit: a
\* second dot is a ValueError
FloatOf(value) ==
    IF Cardinality(Dots(value)) # 1 THEN [raised |-> [exc |-> "ValueError"], value |-> None]
    ELSE [raised |-> None,
          value |-> FloatValue(IntOf(SubSeq(value, 1, (CHOOSE i \in Dots(value) : TRUE) - 1)),
                          StripZeros(SubSeq(value, (CHOOSE i \in Dots(value) : TRUE) + 1,
                                            Len(value))))]

\* float(value) if '.' in value else int(value)
NumberOf(value) ==
    IF Dots(value) # {} THEN FloatOf(value)
    ELSE [raised |-> None, value |-> IntValue(IntOf(value))]

\* self.keywords.get(value.lower(), IDENTIFIER), on the words the source
\* texts of the model are written with
keywords(lowered) ==
    CASE lowered = <<"a", "s">> -> "AS"
      [] lowered = <<"f", "i", "l", "t", "e", "r">> -> "FILTER"
      [] lowered = <<"w", "h", "e", "r", "e">> -> "WHERE"
      [] lowered = <<"a", "n", "d">> -> "AND"
      [] lowered = <<"o", "r">> -> "OR"
      [] lowered = <<"n", "o", "t">> -> "NOT"
      [] lowered = <<"m", "u", "t", "a", "t", "e">> -> "MUTATE"
      [] lowered = <<"w", "i", "t", "h">> -> "WITH"
      [] lowered = <<"n", "u", "l", "l">> -> "NULL"
      [] OTHER -> "IDENTIFIER"

TwoCharOperators == {<<"=", "=", "EQ">>, <<"!", "=", "NEQ">>, <<"<", "=", "LTE">>,
                     <<">", "=", "GTE">>}

\* The single-character tokens in the order next_token tests them; '*' is
\* tested before '**'
OneCharOperators ==
    {<<"<", "LT">>, <<">", "GT">>, <<"=", "ASSIGN">>, <<"+", "PLUS">>, <<"-", "MINUS">>,
     <<"*", "STAR">>, <<"/", "SLASH">>, <<"%", "PERCENT">>, <<".", "DOT">>,
     <<"(", "LPAREN">>, <<")", "RPAREN">>, <<"{", "LBRACE">>, <<"}", "RBRACE">>,
     <<"[", "LBRACKET">>, <<"]", "RBRACKET">>, <<":", "COLON">>, <<",", "COMMA">>}

\* What next_token hands back: the token and the position after it, or the
\* exception it raised
Lexed(lx, tok) == [lx |-> lx, tok |-> tok, raised |-> None]
LexRaised(lx, exception) == [lx |-> lx, tok |-> None, raised |-> exception]

StringToken(r, lx) == Lexed(r.lx, Token("STRING_LITERAL", StrValue(r.value), lx.line, lx.column))

NumberToken(r, n, lx) ==
    IF n.raised # None THEN LexRaised(r.lx, n.raised)
    ELSE Lexed(r.lx, Token("NUMERIC_LITERAL", n.value, lx.line, lx.column))

IdentifierToken(r, lx) ==
    IF Lower(r.value) = <<"t", "r", "u", "e">>
    THEN Lexed(r.lx, Token("BOOLEAN_LITERAL", BoolValue(TRUE), lx.line, lx.column))
    ELSE IF Lower(r.value) = <<"f", "a", "l", "s", "e">>
    THEN Lexed(r.lx, Token("BOOLEAN_LITERAL", BoolValue(FALSE), lx.line, lx.column))
    ELSE Lexed(r.lx, Token(keywords(Lower(r.value)), StrValue(r.value), lx.line, lx.column))

RECURSIVE read_identifier_from(_, _, _)
read_identifier_from(src, lx, value) ==
    IF current_char(src, lx) # NoChar
       /\ (isalnum(current_char(src, lx)) \/ current_char(src, lx) = "_")
    THEN read_identifier_from(src, advance(src, lx), Append(value, current_char(src, lx)))
    ELSE Read(lx, value)

ReadNumberToken(r, lx) == NumberToken(r, NumberOf(r.value), lx)

UnexpectedCharacter(c, lx) ==
    [exc |-> "NoetaError",
     error |-> [category |-> "lexical",
                message |-> [text |-> "Unexpected character", char |-> c],
                context |-> [line |-> lx.line, column |-> lx.column],
                hint |-> [text |-> "This character is not valid in Noeta syntax"],
                suggestion |-> NoSuggestion]]

Operator(src, lx) ==
    IF \E op \in TwoCharOperators : op[1] = current_char(src, lx) /\ op[2] = peek_char(src, lx)
    THEN Lexed(advance(src, advance(src, lx)),
               Token((CHOOSE op \in TwoCharOperators :
                         op[1] = current_char(src, lx) /\ op[2] = peek_char(src, lx))[3],
                     StrValue(<<current_char(src, lx), peek_char(src, lx)>>), lx.line, lx.column))
    ELSE IF \E op \in OneCharOperators : op[1] = current_char(src, lx)
    THEN Lexed(advance(src, lx),
               Token((CHOOSE op \in OneCharOperators : op[1] = current_char(src, lx))[2],
                     StrValue(<<current_char(src, lx)>>), lx.line, lx.column))
    ELSE LexRaised(lx, UnexpectedCharacter(current_char(src, lx), lx))

RECURSIVE next_token(_, _)
next_token(src, lx) ==
    IF current_char(src, lx) = NoChar THEN Lexed(lx, Token("EOF", None, lx.line, lx.column))
    ELSE IF current_char(src, lx) \in {" ", "\t", "\r"}
    THEN next_token(src, skip_whitespace(src, lx))
    ELSE IF current_char(src, lx) = "\n"
    THEN Lexed(advance(src, lx), Token("NEWLINE", StrValue(<<"\n">>), lx.line, lx.column))
    ELSE IF current_char(src, lx) = "#" THEN next_token(src, skip_comment(src, lx))
    ELSE IF current_char(src, lx) = "\"" THEN StringToken(read_string(src, lx), lx)
    ELSE IF isdigit(current_char(src, lx))
    THEN ReadNumberToken(read_number_from(src, lx, <<>>), lx)
    ELSE IF isalpha(current_char(src, lx)) \/ current_char(src, lx) = "_"
    THEN IdentifierToken(read_identifier_from(src, lx, <<>>), lx)
    ELSE Operator(src, lx)

\* except NoetaError: raise / except Exception as e: raise RuntimeError(...)
Propagate(exception) ==
    IF exception.exc = "NoetaError" THEN RaiseNoeta(exception.error)
    ELSE RaiseRuntime(exception.exc)

\* One iteration of the loop of tokenize(); NEWLINE tokens are filtered out
Emit(t) ==
    /\ lexer' = t.lx
    /\ IF t.raised # None
       THEN /\ result' = Propagate(t.raised)
            /\ pc' = "lex_raised"
            /\ UNCHANGED tokens
       ELSE /\ tokens' = IF t.tok.type # "NEWLINE" THEN Append(tokens, t.tok) ELSE tokens
            /\ pc' = IF t.tok.type = "EOF" THEN "parse" ELSE "lex"
            /\ UNCHANGED result

NextToken ==
    /\ pc = "lex"
    /\ Emit(next_token(source_code, lexer))
    /\ UNCHANGED <<datasets, history, carried, supplied, enable_type_check, prog, idx,
                   errors, namespace, cells, source_code, ppos, earlier, calls>>

-----------------------------------------------------------------------------
(* noeta_parser.py.  p is the state of one parse_statement call: the       *)
(* parser position, the values of the tokens consumed by expect, the node  *)
(* built and the exception raised, if any.                                 *)

current_token(toks, pos) == IF pos >= Len(toks) THEN None ELSE toks[pos + 1]

match(toks, pos, token_types) ==
    IF current_token(toks, pos) = None THEN FALSE
    ELSE current_token(toks, pos).type \in token_types

AtEnd(toks, pos) ==
    IF current_token(toks, pos) = None THEN TRUE
    ELSE current_token(toks, pos).type = "EOF"

\* len(value) is defined for text only: a TypeError for int, float, bool, None
HasLen(value) == "str" \in DOMAIN value

\* the truth value Python gives a token value
Truthy(value) ==
    IF "str" \in DOMAIN value THEN value.str # <<>>
    ELSE IF "int" \in DOMAIN value THEN value.int # 0
    ELSE IF "float" \in DOMAIN value THEN value.float # <<0, <<>>>>
    ELSE IF "bool" \in DOMAIN value THEN value.bool
    ELSE FALSE

Parsing(pos) == [pos |-> pos, vals |-> <<>>, node |-> None, raised |-> None]
Throw(p, exception) == [p EXCEPT !.raised = exception]
Advanced(p) == [p EXCEPT !.pos = @ + 1]

SyntaxNoetaError(message, context) ==
    [exc |-> "NoetaError",
     error |-> [category |-> "syntax", message |-> message, context |-> context,
                hint |-> [text |-> "Check the syntax"], suggestion |-> NoSuggestion]]

\* length = len(token.value) if hasattr(token, 'value') and token.value else 1
_create_error_context(token) ==
    IF token = None THEN [raised |-> None, context |-> None]
    ELSE IF Truthy(token.value) /\ ~HasLen(token.value)
    THEN [raised |-> [exc |-> "TypeError"], context |-> None]
    ELSE [raised |-> None,
          context |-> [line |-> token.line, column |-> token.column,
                       length |-> IF Truthy(token.value) THEN Len(token.value.str) ELSE 1]]

\* expect at the end of input: the context is taken from the last token,
\* column + len(last_token.value)
EndOfFile(toks, pos, token_type) ==
    IF pos > 0 /\ pos - 1 < Len(toks)
    THEN IF ~HasLen(toks[pos].value) THEN [exc |-> "TypeError"]
         ELSE SyntaxNoetaError([text |-> "Unexpected end of file", expected |-> token_type],
                               [line |-> toks[pos].line,
                                column |-> toks[pos].column + Len(toks[pos].value.str),
                                length |-> 1])
    ELSE SyntaxNoetaError([text |-> "Unexpected end of file", expected |-> token_type], None)

WrongToken(token, token_type, c) ==
    IF c.raised # None THEN c.raised
    ELSE SyntaxNoetaError([text |-> "Expected", expected |-> token_type, got |-> token.type],
                          c.context)

expect(toks, p, token_type) ==
    IF AtEnd(toks, p.pos) THEN Throw(p, EndOfFile(toks, p.pos, token_type))
    ELSE IF current_token(toks, p.pos).type # token_type
    THEN Throw(p, WrongToken(current_token(toks, p.pos), token_type,
                             _create_error_context(current_token(toks, p.pos))))
    ELSE [p EXCEPT !.pos = @ + 1, !.vals = Append(@, current_token(toks, p.pos).value)]

\* The next expect of a method runs unless an earlier one raised
then_expect(toks, p, token_type) ==
    IF p.raised # None THEN p ELSE expect(toks, p, token_type)

MakeLoad(p) ==
    IF p.raised # None THEN p
    ELSE [p EXCEPT !.node = LoadNode(p.vals[2].str, p.vals[4].str)]

\* After "load": a file path, or a format keyword (csv, json, excel, parquet,
\* sql; these tokens are not among the inputs), else the builtin SyntaxError
AfterLoad(toks, p) ==
    IF p.raised # None THEN p
    ELSE IF match(toks, p.pos, {"STRING_LITERAL"})
    THEN MakeLoad(then_expect(toks,
                      then_expect(toks, expect(toks, p, "STRING_LITERAL"), "AS"),
                      "IDENTIFIER"))
    ELSE Throw(p, [exc |-> "SyntaxError"])

parse_load_enhanced(toks, pos) == AfterLoad(toks, expect(toks, Parsing(pos), "LOAD"))

\* filepath.lower().split('.')[-1]
Ext(filepath) ==
    IF Dots(filepath) = {} THEN Lower(filepath)
    ELSE SubSeq(Lower(filepath),
                (CHOOSE i \in Dots(filepath) : \A j \in Dots(filepath) : j <= i) + 1,
                Len(filepath))

Contains(text, sub) ==
    \E i \in 1..(Len(text) - Len(sub) + 1) : SubSeq(text, i, i + Len(sub) - 1) = sub

SaveKind(filepath) ==
    IF Ext(filepath) = <<"c", "s", "v">> \/ Contains(Lower(filepath), <<"c", "s", "v">>)
    THEN "SaveCSVNode"
    ELSE IF Ext(filepath) = <<"j", "s", "o", "n">> THEN "SaveJSONNode"
    ELSE IF Ext(filepath) \in {<<"x", "l", "s", "x">>, <<"x", "l", "s">>} THEN "SaveExcelNode"
    ELSE IF Ext(filepath) = <<"p", "a", "r", "q", "u", "e", "t">> THEN "SaveParquetNode"
    ELSE "SaveCSVNode"

MakeSave(p) ==
    IF p.raised # None THEN p
    ELSE [p EXCEPT !.node = Node(SaveKind(p.vals[4].str), <<p.vals[2].str>>, <<>>, NoAlias,
                                 p.vals[4].str)]

\* save <source> to "<file>"; the optional "with" parameters are not among
\* the inputs
parse_save_enhanced(toks, pos) ==
    MakeSave(then_expect(toks,
                 then_expect(toks,
                     then_expect(toks, expect(toks, Parsing(pos), "SAVE"), "IDENTIFIER"),
                     "TO"),
                 "STRING_LITERAL"))

MakeDescribe(p) ==
    IF p.raised # None THEN p ELSE [p EXCEPT !.node = DescribeNode(p.vals[2].str)]

parse_describe(toks, pos) ==
    MakeDescribe(then_expect(toks, expect(toks, Parsing(pos), "DESCRIBE"), "IDENTIFIER"))

\* if self.match(TokenType.AS): self.advance(); new_alias = expect(IDENTIFIER)
HeadAlias(toks, p) ==
    IF p.raised # None THEN p
    ELSE IF match(toks, p.pos, {"AS"}) THEN expect(toks, Advanced(p), "IDENTIFIER")
    ELSE p

MakeHead(p) ==
    IF p.raised # None THEN p
    ELSE [p EXCEPT !.node = HeadNode(p.vals[1].str,
                                     IF Len(p.vals) = 2 THEN p.vals[2].str ELSE NoAlias)]

parse_head(toks, pos) ==
    MakeHead(HeadAlias(toks, expect(toks, Advanced(Parsing(pos)), "IDENTIFIER")))

\* What a condition parser hands back: the position reached and the
\* condition built, or the exception raised
Parsed(pos, tree) == [pos |-> pos, tree |-> tree, raised |-> None]
ParseRaised(pos, exception) == [pos |-> pos, tree |-> None, raised |-> exception]

\* The values parse_value builds besides the token values: a list of
\* values, and a dict as its (key, value) pairs in insertion order
ListValue(values) == [list |-> values]
DictValue(pairs) == [dict |-> pairs]

\* result[key] = value
DictPut(pairs, key, value) ==
    IF \E i \in 1..Len(pairs) : pairs[i][1] = key
    THEN [i \in 1..Len(pairs) |-> IF pairs[i][1] = key THEN <<key, value>> ELSE pairs[i]]
    ELSE Append(pairs, <<key, value>>)

\* self.expect(token_type) inside a value parser
ExpectAt(toks, pos, token_type) ==
    IF expect(toks, Parsing(pos), token_type).raised # None
    THEN ParseRaised(pos, expect(toks, Parsing(pos), token_type).raised)
    ELSE Parsed(pos + 1, current_token(toks, pos).value)

\* self.expect(closing bracket); return the value built
Close(toks, c, token_type) ==
    IF c.raised # None THEN c
    ELSE IF ExpectAt(toks, c.pos, token_type).raised # None
    THEN ExpectAt(toks, c.pos, token_type)
    ELSE Parsed(c.pos + 1, c.tree)

\* values.append(self.parse_value())
AppendItem(c, item) ==
    IF item.raised # None THEN item
    ELSE Parsed(item.pos, ListValue(Append(c.tree.list, item.tree)))

\* result[key] = value
PutItem(c, key, value) ==
    IF value.raised # None THEN value
    ELSE Parsed(value.pos, DictValue(DictPut(c.tree.dict, key.tree, value.tree)))

\* an identifier as a value: true, false, none and null by their spelling
IdentifierValue(value) ==
    IF Lower(value.str) = <<"t", "r", "u", "e">> THEN BoolValue(TRUE)
    ELSE IF Lower(value.str) = <<"f", "a", "l", "s", "e">> THEN BoolValue(FALSE)
    ELSE IF Lower(value.str) \in {<<"n", "o", "n", "e">>, <<"n", "u", "l", "l">>} THEN None
    ELSE value

RECURSIVE parse_value(_, _)
RECURSIVE ListLoop(_, _)
RECURSIVE DictLoop(_, _)

\* key: a string literal, else expect(IDENTIFIER); then expect(COLON) and the value
KeyValue(toks, c, key) ==
    IF key.raised # None THEN key
    ELSE IF ExpectAt(toks, key.pos, "COLON").raised # None
    THEN ExpectAt(toks, key.pos, "COLON")
    ELSE PutItem(c, key, parse_value(toks, key.pos + 1))

Pair(toks, c, pos) ==
    KeyValue(toks, c,
             ExpectAt(toks, pos,
                      IF match(toks, pos, {"STRING_LITERAL"}) THEN "STRING_LITERAL"
                      ELSE "IDENTIFIER"))

\* while self.match(TokenType.COMMA) of parse_list_value, then expect(RBRACKET)
ListLoop(toks, c) ==
    IF c.raised # None THEN c
    ELSE IF ~match(toks, c.pos, {"COMMA"}) THEN Close(toks, c, "RBRACKET")
    ELSE IF match(toks, c.pos + 1, {"RBRACKET"})
    THEN Close(toks, Parsed(c.pos + 1, c.tree), "RBRACKET")
    ELSE ListLoop(toks, AppendItem(c, parse_value(toks, c.pos + 1)))

parse_list_value(toks, pos) ==
    IF ExpectAt(toks, pos, "LBRACKET").raised # None THEN ExpectAt(toks, pos, "LBRACKET")
    ELSE IF match(toks, pos + 1, {"RBRACKET"}) THEN Parsed(pos + 2, ListValue(<<>>))
    ELSE ListLoop(toks, AppendItem(Parsed(pos + 1, ListValue(<<>>)),
                                   parse_value(toks, pos + 1)))

\* while self.match(TokenType.COMMA) of parse_dict_value, then expect(RBRACE)
DictLoop(toks, c) ==
    IF c.raised # None THEN c
    ELSE IF ~match(toks, c.pos, {"COMMA"}) THEN Close(toks, c, "RBRACE")
    ELSE IF match(toks, c.pos + 1, {"RBRACE"})
    THEN Close(toks, Parsed(c.pos + 1, c.tree), "RBRACE")
    ELSE DictLoop(toks, Pair(toks, c, c.pos + 1))

parse_dict_value(toks, pos) ==
    IF ExpectAt(toks, pos, "LBRACE").raised # None THEN ExpectAt(toks, pos, "LBRACE")
    ELSE IF match(toks, pos + 1, {"RBRACE"}) THEN Parsed(pos + 2, DictValue(<<>>))
    ELSE DictLoop(toks, Pair(toks, Parsed(pos + 1, DictValue(<<>>)), pos + 1))

\* parse_value: a BOOLEAN_LITERAL or NULL token, like every token type not
\* tested, reaches the final else
parse_value(toks, pos) ==
    IF current_token(toks, pos) = None THEN ParseRaised(pos, [exc |-> "SyntaxError"])
    ELSE IF current_token(toks, pos).type \in {"STRING_LITERAL", "NUMERIC_LITERAL"}
    THEN Parsed(pos + 1, current_token(toks, pos).value)
    ELSE IF current_token(toks, pos).type = "LBRACKET" THEN parse_list_value(toks, pos)
    ELSE IF current_token(toks, pos).type = "LBRACE" THEN parse_dict_value(toks, pos)
    ELSE IF current_token(toks, pos).type = "IDENTIFIER"
    THEN Parsed(pos + 1, IdentifierValue(current_token(toks, pos).value))
    ELSE ParseRaised(pos, [exc |-> "SyntaxError"])

op_map ==
    {<<"EQ", "==">>, <<"NEQ", "!=">>, <<"LT", "<">>, <<"GT", ">">>, <<"LTE", "<=">>,
     <<"GTE", ">=">>}

\* ComparisonNode(column, operator, value) once parse_value has returned
Compare(column, op_token, value) ==
    IF value.raised # None THEN value
    ELSE Parsed(value.pos,
                ComparisonNode(column.value,
                               (CHOOSE op \in op_map : op[1] = op_token.type)[2],
                               value.tree))

\* self.expect(TokenType.RPAREN) after the condition in parentheses
CloseParen(toks, c) ==
    IF c.raised # None THEN c
    ELSE IF expect(toks, Parsing(c.pos), "RPAREN").raised # None
    THEN ParseRaised(c.pos, expect(toks, Parsing(c.pos), "RPAREN").raised)
    ELSE Parsed(c.pos + 1, c.tree)

\* NotConditionNode(condition)
Negate(c) == IF c.raised # None THEN c ELSE Parsed(c.pos, NotConditionNode(c.tree))

\* left = BinaryConditionNode(left, operator, right)
Combine(left, operator, right) ==
    IF right.raised # None THEN right
    ELSE Parsed(right.pos, BinaryConditionNode(left.tree, operator, right.tree))

RECURSIVE parse_or_condition(_, _)
RECURSIVE parse_and_condition(_, _)
RECURSIVE parse_not_condition(_, _)

parse_where_clause(toks, pos) == parse_or_condition(toks, pos)

\* A condition in parentheses, or column operator value; between, in, is and
\* the string matches are not among the inputs
parse_primary_condition(toks, pos) ==
    IF match(toks, pos, {"LPAREN"}) THEN CloseParen(toks, parse_where_clause(toks, pos + 1))
    ELSE IF ~match(toks, pos, {"IDENTIFIER"}) THEN ParseRaised(pos, [exc |-> "SyntaxError"])
    ELSE IF match(toks, pos + 1, {op[1] : op \in op_map})
    THEN Compare(current_token(toks, pos), current_token(toks, pos + 1),
                 parse_value(toks, pos + 2))
    ELSE ParseRaised(pos + 1, [exc |-> "SyntaxError"])

parse_not_condition(toks, pos) ==
    IF match(toks, pos, {"NOT"}) THEN Negate(parse_not_condition(toks, pos + 1))
    ELSE parse_primary_condition(toks, pos)

\* while self.match(TokenType.AND) of parse_and_condition
RECURSIVE AndLoop(_, _)
AndLoop(toks, left) ==
    IF left.raised # None THEN left
    ELSE IF match(toks, left.pos, {"AND"})
    THEN AndLoop(toks, Combine(left, "and", parse_not_condition(toks, left.pos + 1)))
    ELSE left

parse_and_condition(toks, pos) == AndLoop(toks, parse_not_condition(toks, pos))

\* while self.match(TokenType.OR) of parse_or_condition
RECURSIVE OrLoop(_, _)
OrLoop(toks, left) ==
    IF left.raised # None THEN left
    ELSE IF match(toks, left.pos, {"OR"})
    THEN OrLoop(toks, Combine(left, "or", parse_and_condition(toks, left.pos + 1)))
    ELSE left

\* Variant: OR is parsed below AND
parse_or_condition_and_first(toks, pos) ==
    AndLoop(toks, OrLoop(toks, parse_not_condition(toks, pos)))

parse_or_condition(toks, pos) == OrLoop(toks, parse_and_condition(toks, pos))

\* condition = self.parse_where_clause(), kept with the values expect read
WhereClause(p, c) ==
    IF c.raised # None THEN Throw([p EXCEPT !.pos = c.pos], c.raised)
    ELSE [p EXCEPT !.pos = c.pos, !.vals = Append(@, c.tree)]

\* the columns a condition compares
RECURSIVE ConditionColumns(_)
ConditionColumns(c) ==
    IF c.kind = "ComparisonNode" THEN <<c.args[1].str>>
    ELSE IF c.kind = "NotConditionNode" THEN ConditionColumns(c.args[1])
    ELSE ConditionColumns(c.args[1]) \o ConditionColumns(c.args[2])

MakeFilter(p) ==
    IF p.raised # None THEN p
    ELSE [p EXCEPT !.node =
            [UpdatedFilterNode(p.vals[2].str, ConditionColumns(p.vals[4]),
                               IF Len(p.vals) = 5 THEN p.vals[5].str ELSE NoAlias)
             EXCEPT !.tree = p.vals[4]]]

AfterWhere(toks, p) ==
    IF p.raised # None THEN p
    ELSE MakeFilter(HeadAlias(toks, WhereClause(p, parse_where_clause(toks, p.pos))))

parse_filter(toks, pos) ==
    AfterWhere(toks, then_expect(toks,
                         then_expect(toks, expect(toks, Parsing(pos), "FILTER"), "IDENTIFIER"),
                         "WHERE"))

\* The statement parser "power data column value exponent = 2 as squared".
\* It is the second definition of parse_power in the class and replaces the
\* expression parser of the same name
parse_power(toks, p) ==
    HeadAlias(toks,
      then_expect(toks,
        then_expect(toks,
          then_expect(toks,
            then_expect(toks,
              then_expect(toks, expect(toks, Advanced(p), "IDENTIFIER"), "COLUMN"),
              "IDENTIFIER"),
            "EXPONENT"),
          "ASSIGN"),
        "NUMERIC_LITERAL"))

\* left = self.parse_power(), then the loop condition reads
\* TokenType.MULTIPLY, a name TokenType does not have
parse_multiplicative(toks, p) ==
    IF parse_power(toks, p).raised # None THEN parse_power(toks, p)
    ELSE Throw(parse_power(toks, p), [exc |-> "AttributeError"])

\* parse_expression goes down through parse_conditional, parse_logical_or,
\* parse_logical_and, parse_comparison and parse_additive; each starts by
\* calling the next, and parse_multiplicative does not return
parse_expression(toks, p) == IF p.raised # None THEN p ELSE parse_multiplicative(toks, p)

\* WITH col = expr
parse_mutations_with_syntax(toks, p) ==
    parse_expression(toks,
        then_expect(toks, then_expect(toks, expect(toks, p, "WITH"), "IDENTIFIER"), "ASSIGN"))

\* mutate source with col = expr; parse_expression raises before the alias
\* is read and the node built.  The brace syntax starts with expect(LBRACE)
\* and is not among the inputs
AfterMutate(toks, p) ==
    IF p.raised # None THEN p
    ELSE IF match(toks, p.pos, {"WITH"}) THEN parse_mutations_with_syntax(toks, p)
    ELSE expect(toks, p, "LBRACE")

parse_mutate(toks, pos) ==
    AfterMutate(toks, then_expect(toks, expect(toks, Parsing(pos), "MUTATE"), "IDENTIFIER"))

\* The dispatch of parse_statement on the statement kinds of the model; a
\* token that opens no statement raises the builtin SyntaxError
parse_statement(toks, pos) ==
    CASE current_token(toks, pos).type = "LOAD" -> parse_load_enhanced(toks, pos)
      [] current_token(toks, pos).type = "HEAD" -> parse_head(toks, pos)
      [] current_token(toks, pos).type = "DESCRIBE" -> parse_describe(toks, pos)
      [] current_token(toks, pos).type = "SAVE" -> parse_save_enhanced(toks, pos)
      [] current_token(toks, pos).type = "FILTER" -> parse_filter(toks, pos)
      [] current_token(toks, pos).type = "MUTATE" -> parse_mutate(toks, pos)
      [] OTHER -> Throw(Parsing(pos), [exc |-> "SyntaxError"])

\* statements.append(stmt), or the exception leaves compile_noeta
Accept(p) ==
    IF p.raised # None
    THEN /\ result' = Propagate(p.raised)
         /\ pc' = "parse_raised"
         /\ UNCHANGED <<prog, ppos>>
    ELSE /\ prog' = Append(prog, p.node)
         /\ ppos' = p.pos
         /\ UNCHANGED <<pc, result>>

\* One iteration of the loop of Parser.parse
ParseStatement ==
    /\ pc = "parse"
    /\ ~AtEnd(tokens, ppos)
    /\ Accept(parse_statement(tokens, ppos))
    /\ UNCHANGED <<datasets, history, carried, supplied, enable_type_check, idx, errors,
                   namespace, cells, source_code, lexer, tokens, earlier, calls>>

\* parse returns the ProgramNode and the analyzer is constructed
ParseDone ==
    /\ pc = "parse"
    /\ AtEnd(tokens, ppos)
    /\ pc' = "analyze"
    /\ UNCHANGED <<datasets, history, carried, supplied, enable_type_check, prog, idx,
                   errors, result, namespace, cells, source_code, lexer, tokens, ppos,
                   earlier, calls>>

-----------------------------------------------------------------------------
(* compile_noeta from a source text over a small alphabet *)

LexChars == {"a", "s", "1", ".", "\"", "\\", " ", "\n", "#", "@", "=", "*"}

Sources == SeqsUpTo(LexChars, MaxLen)

FreshCompile ==
    /\ datasets = SymbolTable.datasets
    /\ history = SymbolTable.history
    /\ carried = FALSE
    /\ supplied = SymbolTable
    /\ enable_type_check = FALSE
    /\ prog = <<>>
    /\ idx = 0
    /\ errors = <<>>
    /\ result = NoResult
    /\ namespace = <<>>
    /\ cells = 0

LexInit ==
    /\ source_code \in Sources
    /\ lexer = LexerInit
    /\ tokens = <<>>
    /\ ppos = 0
    /\ earlier = NoResult
    /\ calls = <<>>
    /\ pc = "lex"
    /\ FreshCompile

LexNext == NextToken \/ ParseStatement \/ ParseDone \/ Generate

SpecLex == LexInit /\ [][LexNext]_vars

-----------------------------------------------------------------------------
(* compile_noeta from the token list of a one-line source text *)

Word(type, chars) == [type |-> type, value |-> StrValue(chars)]

TokenAlphabet ==
    { Word("LOAD", <<"l", "o", "a", "d">>),
      Word("SAVE", <<"s", "a", "v", "e">>),
      Word("DESCRIBE", <<"d", "e", "s", "c", "r", "i", "b", "e">>),
      Word("HEAD", <<"h", "e", "a", "d">>),
      Word("AS", <<"a", "s">>),
      Word("TO", <<"t", "o">>),
      Word("IDENTIFIER", nD),
      Word("STRING_LITERAL", fSales),
      [type |-> "NUMERIC_LITERAL", value |-> IntValue(5)] }

\* Characters the token occupies in the text
Width(t) ==
    IF t.type = "STRING_LITERAL" THEN Len(t.value.str) + 2
    ELSE IF t.type = "NUMERIC_LITERAL" THEN 1
    ELSE Len(t.value.str)

\* What tokenize() returns for the words written on one line, one space apart
RECURSIVE Layout(_, _)
Layout(words, column) ==
    IF words = <<>> THEN <<Token("EOF", None, 1, IF column > 1 THEN column - 1 ELSE 1)>>
    ELSE <<Token(Head(words).type, Head(words).value, 1, column)>>
         \o Layout(Tail(words), column + Width(Head(words)) + 1)

TokenLists == {Layout(words, 1) : words \in SeqsUpTo(TokenAlphabet, MaxTokens)}

ParseInit ==
    /\ tokens \in TokenLists
    /\ source_code = <<>>
    /\ lexer = LexerInit
    /\ ppos = 0
    /\ earlier = NoResult
    /\ calls = <<>>
    /\ pc = "parse"
    /\ carried \in BOOLEAN
    /\ \E tab \in (IF carried THEN CarriedTables ELSE {SymbolTable}) :
          /\ datasets = tab.datasets
          /\ history = tab.history
          /\ supplied = tab
    /\ enable_type_check = FALSE
    /\ prog = <<>>
    /\ idx = 0
    /\ errors = <<>>
    /\ result = NoResult
    /\ namespace = <<>>
    /\ cells = 0

ParseNext == ParseStatement \/ ParseDone \/ Visit \/ RaiseErrors \/ Generate

SpecParse == ParseInit /\ [][ParseNext]_vars

-----------------------------------------------------------------------------
(* compile_noeta from the text of one filter statement or one mutate        *)
(* statement in the "with" syntax                                           *)

MaxAtoms == 3
MaxNots == 2
MaxOperands == 4

FilterPrefix ==
    <<"f", "i", "l", "t", "e", "r", " ", "d", " ", "w", "h", "e", "r", "e", " ">>

Comparisons ==
    << <<"a", " ", ">", " ", "1">>, <<"b", " ", "<", " ", "2">>,
       <<"c", " ", "=", "=", " ", "3">> >>

RECURSIVE Nots(_)
Nots(n) == IF n = 0 THEN <<>> ELSE <<"n", "o", "t", " ">> \o Nots(n - 1)

\* the i-th comparison of a condition, negated up to MaxNots times
Terms(i) == {Nots(n) \o Comparisons[((i - 1) % Len(Comparisons)) + 1] : n \in 0..MaxNots}

Connectives == {<<" ", "a", "n", "d", " ">>, <<" ", "o", "r", " ">>}

RECURSIVE Conditions(_)
Conditions(n) ==
    IF n = 1 THEN Terms(1)
    ELSE {c \o k \o t : c \in Conditions(n - 1), k \in Connectives, t \in Terms(n)}

FilterSources == {FilterPrefix \o c : c \in UNION {Conditions(n) : n \in 1..MaxAtoms}}

MutatePrefix ==
    <<"m", "u", "t", "a", "t", "e", " ", "d", " ", "w", "i", "t", "h", " ", "z", " ", "=", " ">>

Operands == <<"1", "2", "3", "2">>

ArithmeticOperators ==
    {<<" ", "+", " ">>, <<" ", "-", " ">>, <<" ", "*", " ">>, <<" ", "/", " ">>,
     <<" ", "%", " ">>, <<" ", "*", "*", " ">>}

RECURSIVE Expressions(_)
Expressions(n) ==
    IF n = 1 THEN {<<Operands[1]>>}
    ELSE {e \o o \o <<Operands[((n - 1) % Len(Operands)) + 1]>> :
             e \in Expressions(n - 1), o \in ArithmeticOperators}

MutateSources == {MutatePrefix \o e : e \in UNION {Expressions(n) : n \in 1..MaxOperands}}

\* Value forms of the grammar, each with the value it denotes: scalars,
\* lists of up to MaxItems scalars and maps of up to MaxItems pairs, the
\* i-th pair under the i-th key, bare or quoted; lists and maps also with a
\* trailing comma
MaxItems == 2

Form(text, value) == [text |-> text, value |-> value]

Scalars ==
    { Form(<<"\"", "s", "\"">>, StrValue(<<"s">>)),
      Form(<<"1">>, IntValue(1)),
      Form(<<"t", "r", "u", "e">>, BoolValue(TRUE)),
      Form(<<"f", "a", "l", "s", "e">>, BoolValue(FALSE)),
      Form(<<"n", "u", "l", "l">>, None) }

Keys == <<"k", "j", "m">>

KeyTexts(i) == {<<Keys[i]>>, <<"\"", Keys[i], "\"">>}

Pairs(i) ==
    {Form(k \o <<":", " ">> \o v.text, <<StrValue(<<Keys[i]>>), v.value>>) :
        k \in KeyTexts(i), v \in Scalars}

\* the items of a list or map of n items: the texts joined by ", ", the values in order
RECURSIVE Items(_, _)
Items(n, isMap) ==
    IF n = 0 THEN {Form(<<>>, <<>>)}
    ELSE {Form((IF n = 1 THEN <<>> ELSE f.text \o <<",", " ">>) \o x.text,
               Append(f.value, x.value)) :
             f \in Items(n - 1, isMap), x \in (IF isMap THEN Pairs(n) ELSE Scalars)}

Lists ==
    {Form(<<"[">> \o f.text \o c \o <<"]">>, ListValue(f.value)) :
        f \in UNION {Items(n, FALSE) : n \in 0..MaxItems},
        c \in {<<>>, <<",">>}} \ {Form(<<"[", ",", "]">>, ListValue(<<>>))}

Maps ==
    {Form(<<"{">> \o f.text \o c \o <<"}">>, DictValue(f.value)) :
        f \in UNION {Items(n, TRUE) : n \in 0..MaxItems},
        c \in {<<>>, <<",">>}} \ {Form(<<"{", ",", "}">>, DictValue(<<>>))}

ValueForms == Scalars \cup Lists \cup Maps

ValuePrefix ==
    <<"f", "i", "l", "t", "e", "r", " ", "d", " ", "w", "h", "e", "r", "e", " ", "a", " ",
      "=", "=", " ">>

ValueSources == {ValuePrefix \o f.text : f \in ValueForms}

GrammarInit ==
    /\ source_code \in FilterSources \cup MutateSources \cup ValueSources
    /\ lexer = LexerInit
    /\ tokens = <<>>
    /\ ppos = 0
    /\ earlier = NoResult
    /\ calls = <<>>
    /\ pc = "lex"
    /\ FreshCompile

GrammarNext == NextToken \/ ParseStatement \/ ParseDone \/ Visit \/ RaiseErrors

SpecGrammar == GrammarInit /\ [][GrammarNext]_vars

-----------------------------------------------------------------------------
(* Vocabulary of the properties *)

Names(ds) == SeqToSet(get_all_names(ds))

SuppliedNames == Names(supplied.datasets)

\* Result aliases declared by the statements before statement i
AliasesBefore(i) == {prog[j].alias : j \in 1..(i - 1)} \ {NoAlias}

SourcesDefinedEarlier(i) ==
    \A k \in 1..Len(prog[i].src) : prog[i].src[k] \in SuppliedNames \cup AliasesBefore(i)

\* The symbol table the analyzer holds when it reaches statement i
RECURSIVE AnalyzedTable(_, _, _)
AnalyzedTable(stmts, tab, tc) ==
    IF stmts = <<>> THEN tab
    ELSE AnalyzedTable(Tail(stmts), visit(Head(stmts), tab, tc).tab, tc)

TableBefore(i) == AnalyzedTable(SubSeq(prog, 1, i - 1), supplied, enable_type_check)

ColumnsInKnownSchema(i) ==
    \A k \in 1..Len(prog[i].src) :
        LET info == lookup(TableBefore(i).datasets, prog[i].src[k])
        IN (info # None /\ info.columns # <<>>) =>
              \A c \in 1..Len(prog[i].cols) : has_column(info, prog[i].cols[c])

AnalysisFinished == idx = Len(prog)
CompileFinished == pc \in {"raised", "returned"}

\* A step of analyze() that visits one statement
VisitStep == pc = "analyze" /\ idx < Len(prog) /\ idx' = idx + 1
Emitted == Len(errors') = Len(errors) + 1
NewError == errors'[Len(errors')]
IsDatasetError(e) == e.message.text = "Dataset has not been loaded or created"
IsColumnError(e) == e.message.text = "Column does not exist in dataset"

-----------------------------------------------------------------------------
(* C1: compile_noeta returns generated text only if every source alias of  *)
(* every statement is defined by an earlier statement of the program or is *)
(* present in the carried symbol table (the analyzer checks every          *)
(* statement kind that reads a dataset, save included).                    *)
C1_TextOnlyIfSourcesDefined ==
    result.kind = "text" => \A i \in 1..Len(prog) : SourcesDefinedEarlier(i)

(* C2: analyze returns an empty diagnostic list if and only if every       *)
(* statement's source aliases were defined earlier (or pre-supplied) and   *)
(* every column it references exists in the source schema whenever that    *)
(* schema is known.                                                        *)
C2_NoDiagnosticsIffWellFormed ==
    AnalysisFinished =>
        (errors = <<>> <=>
            \A i \in 1..Len(prog) : SourcesDefinedEarlier(i) /\ ColumnsInKnownSchema(i))

\* C1 and C2 refuted on: save of a never-defined alias compiles
W1_SaveOfUndefinedCompiles ==
    /\ result.kind = "text"
    /\ \E i \in 1..Len(prog) : prog[i].kind = "SaveCSVNode" /\ ~SourcesDefinedEarlier(i)

-----------------------------------------------------------------------------
(* Case-insensitive edit distances between the names of the model, written *)
(* out by hand: the yardstick the suggestion is measured against.          *)
EditDistance(a, b) ==
    LET la == Lower(a)
        lb == Lower(b)
        pair == {la, lb}
    IN CASE la = lb -> 0
         [] pair = {<<"d">>, <<"d", "a", "t">>} -> 2
         [] pair = {<<"d">>, <<"d", "a", "t", "a">>} -> 3
         [] pair = {<<"d", "a", "t">>, <<"d", "a", "t", "a">>} -> 1
         [] pair = {<<"d">>, <<"z", "z", "z", "z", "z">>} -> 5
         [] pair = {<<"d", "a", "t">>, <<"z", "z", "z", "z", "z">>} -> 5
         [] pair = {<<"d", "a", "t", "a">>, <<"z", "z", "z", "z", "z">>} -> 5

WithinThree(X, ds) == {n \in Names(ds) : EditDistance(X, n) <= 3}

Unresolved(node, ds) == {k \in 1..Len(node.src) : ~exists(ds, node.src[k])}

C4_AnalysisContinuesInOrder ==
    [][(pc = "analyze" /\ idx < Len(prog)) =>
          /\ pc' = "analyze"
          /\ idx' = idx + 1
          /\ \/ errors' = errors
             \/ /\ Emitted
                /\ SubSeq(errors', 1, Len(errors)) = errors
                /\ \/ /\ IsDatasetError(NewError)
                      /\ NewError.message.dataset \in SeqToSet(prog[idx + 1].src)
                   \/ /\ IsColumnError(NewError)
                      /\ NewError.message.column \in SeqToSet(prog[idx + 1].cols)
      ]_vars

\* Both statements of a two-statement program failed, each on its own alias
W4_TwoDiagnosticsInOrder ==
    /\ AnalysisFinished
    /\ Len(prog) = 2
    /\ Len(errors) = 2
    /\ IsDatasetError(errors[1]) /\ IsDatasetError(errors[2])
    /\ errors[1].message.dataset = prog[1].src[1]
    /\ errors[2].message.dataset = prog[2].src[1]
    /\ prog[1].src[1] # prog[2].src[1]

(* C5: a statement for which the analyzer emits a diagnostic leaves the    *)
(* symbol table unchanged; its result alias is not registered, so a later  *)
(* statement that reads that alias is reported in turn.                    *)
C5_FailingStatementRegistersNothing ==
    [][VisitStep =>
          /\ Emitted => (datasets' = datasets /\ history' = history)
          /\ \A j \in 1..idx :
                LET A == prog[j].alias
                    node == prog[idx + 1]
                IN (/\ A # NoAlias
                    /\ ~exists(datasets, A)
                    /\ A \in SeqToSet(node.src))
                   => (Emitted /\ IsDatasetError(NewError))
      ]_vars

(* C6: when analysis yields n >= 1 diagnostics compile_noeta raises one    *)
(* error and returns no text: the diagnostic itself for n = 1, and for     *)
(* n > 1 an aggregate whose report contains all n diagnostics.             *)
C6_OneErrorRaised ==
    (CompileFinished /\ errors # <<>>) =>
        /\ result.kind = "raise"
        /\ result.exc = "NoetaError"
        /\ Len(errors) = 1 => result.error = errors[1]
        /\ Len(errors) > 1 =>
              LET report == result.error.message.report
              IN /\ result.error.message.text = "multi"
                 /\ Len(report.entries) = Len(errors)
                 /\ \A i \in 1..Len(errors) :
                       \E j \in 1..Len(report.entries) :
                           /\ report.entries[j].message = errors[i].message
                           /\ report.entries[j].suggestion = errors[i].suggestion
                           /\ report.entries[j].hint = errors[i].hint

W6_AggregateRaised ==
    /\ CompileFinished
    /\ Len(errors) = 2
    /\ errors[1].message # errors[2].message
    /\ result.kind = "raise"

-----------------------------------------------------------------------------
ExecuteStep == cells' = cells + 1
ClearStep == pc' = "cleared" /\ cells' = cells

\* Statement kinds whose visitor resolves its source in the symbol table
LooksUp(node) ==
    node.kind \in {"SelectNode", "UpdatedFilterNode", "JoinNode", "DescribeNode", "HeadNode"}

DatasetErrors(errs) == {errs[i].message.dataset : i \in {j \in 1..Len(errs) : IsDatasetError(errs[j])}}

(* C10: with a carried symbol table an alias defined during one compilation *)
(* resolves in every later compilation given the same table, whatever      *)
(* compilations lie between, until clear is called; after clear no         *)
(* previously defined alias resolves.                                      *)
C10_AliasesPersistUntilClear ==
    [][/\ ExecuteStep =>
            /\ Names(datasets) \subseteq Names(datasets')
            /\ DatasetErrors(errors') \cap Names(datasets) = {}
       /\ ClearStep => Names(datasets') = {}
       /\ (ExecuteStep /\ pc = "cleared" /\ prog' # <<>> /\ LooksUp(prog'[1])) =>
            /\ errors' # <<>>
            /\ errors'[1].message.dataset = prog'[1].src[1]
      ]_vars

\* d was loaded in an earlier cell (the namespace still binds it), the table
\* was cleared, and the cell "describe d" is now refused
W10_ClearedAliasRefused ==
    /\ pc = "executed"
    /\ exists(namespace, nD)
    /\ prog = <<DescribeNode(nD)>>
    /\ nD \in DatasetErrors(errors)

-----------------------------------------------------------------------------
(* C7: every source text the lexer or the parser rejects makes             *)
(* compile_noeta raise a single NoetaError whose category is lexical or    *)
(* syntax respectively, whatever the unexpected token or premature end of  *)
(* input; no other exception type reaches the caller.                      *)
C7_RejectionIsOneDiagnostic ==
    pc \in {"lex_raised", "parse_raised"} =>
        /\ result.kind = "raise"
        /\ result.exc = "NoetaError"
        /\ result.error.category = (IF pc = "lex_raised" THEN "lexical" ELSE "syntax")

-----------------------------------------------------------------------------
(* What a reader of the text sees: a '#' outside a string opens a comment  *)
(* up to the end of the line, a '"' outside a comment opens a string       *)
(* literal, which the next '"' not written '\"' closes.                     *)
RECURSIVE EndsInsideString(_, _, _)
EndsInsideString(text, i, mode) ==
    IF i > Len(text) THEN mode = "string"
    ELSE IF mode = "comment"
    THEN EndsInsideString(text, i + 1, IF text[i] = "\n" THEN "code" ELSE "comment")
    ELSE IF mode = "string"
    THEN IF text[i] = "\\" /\ i < Len(text) /\ text[i + 1] = "\""
         THEN EndsInsideString(text, i + 2, "string")
         ELSE EndsInsideString(text, i + 1, IF text[i] = "\"" THEN "code" ELSE "string")
    ELSE EndsInsideString(text, i + 1,
                          IF text[i] = "#" THEN "comment"
                          ELSE IF text[i] = "\"" THEN "string" ELSE "code")

UnterminatedString(text) == EndsInsideString(text, 1, "code")

(* C8: a source text containing a string literal whose closing quote is    *)
(* missing makes tokenize raise one lexical diagnostic, and compile_noeta  *)
(* raises it without running the parser.                                   *)
C8_UnterminatedStringIsLexical ==
    (UnterminatedString(source_code) /\ pc # "lex") =>
        /\ pc = "lex_raised"
        /\ result.exc = "NoetaError"
        /\ result.error.category = "lexical"

-----------------------------------------------------------------------------
\* Line and column of the k-th character of a text, counted from 1
LineOf(text, k) == 1 + Cardinality({i \in 1..(k - 1) : text[i] = "\n"})
ColumnOf(text, k) ==
    k - (CHOOSE m \in {0} \cup {i \in 1..(k - 1) : text[i] = "\n"} :
            \A i \in 1..(k - 1) : text[i] = "\n" => i <= m)

(* C9: for every source text tokenize either returns a token list ending   *)
(* in the end marker, or raises a lexical diagnostic carrying the          *)
(* offending character with its line and column; it never drops input it   *)
(* cannot match and never fails with any other kind of error.              *)
C9_TokensOrLexicalDiagnostic ==
    /\ pc = "lex_raised" =>
          /\ result.exc = "NoetaError"
          /\ result.error.category = "lexical"
          /\ lexer.pos < Len(source_code)
          /\ result.error.message.char = source_code[lexer.pos + 1]
          /\ result.error.context.line = LineOf(source_code, lexer.pos + 1)
          /\ result.error.context.column = ColumnOf(source_code, lexer.pos + 1)
    /\ pc \notin {"lex", "lex_raised"} =>
          /\ tokens # <<>>
          /\ tokens[Len(tokens)].type = "EOF"
          /\ lexer.pos = Len(source_code)

-----------------------------------------------------------------------------
\* Names the runtime namespace binds to a DataFrame
FrameNames(ns) == {ns[i].name : i \in {j \in 1..Len(ns) : ns[j].type = "DataFrame"}}

\* The kernel's table when do_execute reaches sync_from_namespace: as the
\* analysis of the cell left it
TableAtSync ==
    analyze(prog', [datasets |-> datasets, history |-> history], FALSE).tab.datasets

SyncStep == ExecuteStep /\ prog' # <<>> /\ result'.kind = "ok"

(* C11: sync_from_namespace registers exactly the table-shaped values of   *)
(* the runtime namespace whose names are not yet tracked: afterwards every *)
(* such name is tracked (with the columns of its frame, no other name is   *)
(* added), and every entry tracked before the call is unchanged.           *)
C11_SyncRegistersUntrackedFrames ==
    [][SyncStep =>
          /\ Names(datasets') = Names(TableAtSync) \cup FrameNames(namespace')
          /\ \A n \in Names(TableAtSync) : lookup(datasets', n) = lookup(TableAtSync, n)
          /\ \A n \in FrameNames(namespace') \ Names(TableAtSync) :
                ColumnNames(lookup(datasets', n).columns) = Columns(namespace', n)
      ]_vars

\* A successful cell after which the table holds an entry learnt from the
\* runtime next to an entry of the analyzer that a frame did not replace
W11_RuntimeEntryBesideTracked ==
    /\ pc = "executed" /\ result.kind = "ok"
    /\ \E i, j \in 1..Len(datasets) :
          /\ datasets[i].source.op = "runtime"
          /\ datasets[j].source.op # "runtime"
          /\ datasets[j].name \in FrameNames(namespace)
          /\ ColumnNames(datasets[j].columns) # Columns(namespace, datasets[j].name)
    /\ \E k \in 1..Len(namespace) : namespace[k].type = "module"

-----------------------------------------------------------------------------
\* The dataset an entry of the table describes: the DataFrame its name is
\* bound to in the runtime namespace
SchemaExact(info, ns) ==
    SeqToSet(ColumnNames(info.columns)) = SeqToSet(Columns(ns, info.name))

(* C12: after any sequence of statements and reconciliations, every schema *)
(* held in the symbol table is either empty (unknown) or lists exactly the *)
(* columns of the dataset it describes; no entry holds only part of a      *)
(* dataset's columns.                                                      *)
C12_SchemaEmptyOrExact ==
    (pc = "executed" /\ result.kind = "ok") =>
        \A i \in 1..Len(datasets) :
            \/ datasets[i].columns = <<>>
            \/ datasets[i].name \notin FrameNames(namespace)
            \/ SchemaExact(datasets[i], namespace)

-----------------------------------------------------------------------------
\* Statement kinds by what they do to the shape of the data
ShapePreserving == {"UpdatedFilterNode", "HeadNode", "FillMeanNode"}
ColumnSelecting == {"SelectNode"}
Transformative == {"PivotNode", "GroupByNode"}

\* The statement visited declares a result alias and no diagnostic is emitted
DeclaresAlias == VisitStep /\ prog[idx + 1].alias # NoAlias /\ errors' = errors

Registered == lookup(datasets', prog[idx + 1].alias)
SourceSchema == lookup(datasets, prog[idx + 1].src[1]).columns

(* C13: when a statement declares a result alias, the schema registered    *)
(* for it is the source schema unchanged for shape-preserving operations,  *)
(* exactly the selected columns for column-selecting operations, and       *)
(* unknown (empty) for pivot and aggregating groupby.                      *)
C13_RegisteredSchemaByKind ==
    [][(DeclaresAlias /\ prog[idx + 1].kind \in
                ShapePreserving \cup ColumnSelecting \cup Transformative) =>
          /\ Registered # None
          /\ Registered.source.from = prog[idx + 1].src[1]
          /\ prog[idx + 1].kind \in ShapePreserving =>
                Registered.columns = SourceSchema
          /\ prog[idx + 1].kind \in ColumnSelecting =>
                ColumnNames(Registered.columns) = prog[idx + 1].cols
          /\ prog[idx + 1].kind \in Transformative =>
                Registered.columns = <<>>
      ]_vars

-----------------------------------------------------------------------------
\* Statements that name columns of their source: select lists, filter
\* conditions, join keys, group keys
NamesColumns == {"SelectNode", "UpdatedFilterNode", "JoinNode", "GroupByNode"}

SchemaKnown(node, ds, k) == lookup(ds, node.src[k]).columns # <<>>

NamesMissingColumn(node, ds) ==
    \E k \in 1..Len(node.src) :
        /\ SchemaKnown(node, ds, k)
        /\ \E c \in 1..Len(node.cols) : ~has_column(lookup(ds, node.src[k]), node.cols[c])

(* C14: if a statement's source dataset has a known schema, every column   *)
(* the statement names (select lists, group and join keys, columns used in *)
(* filter conditions) must be in that schema, otherwise a semantic         *)
(* diagnostic is emitted for the statement; if the schema is unknown, no   *)
(* column diagnostic is emitted.                                           *)
C14_NamedColumnsChecked ==
    [][(VisitStep /\ prog[idx + 1].kind \in NamesColumns
                  /\ Unresolved(prog[idx + 1], datasets) = {}) =>
          /\ NamesMissingColumn(prog[idx + 1], datasets) =>
                (Emitted /\ NewError.category = "semantic")
          /\ (\A k \in 1..Len(prog[idx + 1].src) : ~SchemaKnown(prog[idx + 1], datasets, k)) =>
                ~Emitted
      ]_vars

-----------------------------------------------------------------------------
\* Aliases the analyzer bound for the program: the definitions its visitors
\* added to the history of the table
BoundByAnalyzer == SeqToSet(SubSeq(history, Len(supplied.history) + 1, Len(history)))

(* C15: for every program that passes analysis, the set of aliases         *)
(* recorded in the generator's local symbol set after generation equals    *)
(* the set of aliases the analyzer bound for that program, so an alias the *)
(* analyzer resolves is never unknown to the generator.                    *)
C15_GeneratorMirrorsAnalyzer ==
    (CompileFinished /\ errors = <<>>) =>
        /\ generate(prog, carried, datasets).symbol_table = BoundByAnalyzer
        /\ result.kind = "text"

-----------------------------------------------------------------------------
\* Statement kinds of the model with a visit_ method in each stage
AnalyzerHandles ==
    {"LoadNode", "SaveNode", "SelectNode", "UpdatedFilterNode", "JoinNode", "DescribeNode",
     "HeadNode", "MutateNode", "ShowNode", "GroupByNode", "PivotNode"}
GeneratorHandles ==
    {"LoadNode", "SelectNode", "UpdatedFilterNode", "JoinNode", "DescribeNode", "HeadNode",
     "MutateNode", "ShowNode", "GroupByNode", "PivotNode", "UnionNode", "FillMeanNode",
     "SaveCSVNode", "SaveJSONNode", "SaveExcelNode", "SaveParquetNode"}

Unhandled(handles) == {i \in 1..Len(prog) : prog[i].kind \notin handles}

InternalError == result.kind = "raise" /\ result.exc = "RuntimeError"

(* C16: if the program contains a statement kind that has no handler in    *)
(* the dispatch table of the stage processing it (analyzer or generator),  *)
(* compilation raises an internal error that is distinct from author       *)
(* diagnostics; such a statement is never silently accepted.               *)
C16_UnhandledKindRaisesInternalError ==
    CompileFinished =>
        /\ Unhandled(AnalyzerHandles) # {} =>
              (result.kind = "raise" /\ (errors = <<>> => InternalError))
        /\ (errors = <<>> /\ Unhandled(GeneratorHandles) # {}) => InternalError

-----------------------------------------------------------------------------
\* Token types of the statements of the grammar over the token alphabet,
\* each followed by the end marker
ValidStatements ==
    { <<"LOAD", "STRING_LITERAL", "AS", "IDENTIFIER", "EOF">>,
      <<"SAVE", "IDENTIFIER", "TO", "STRING_LITERAL", "EOF">>,
      <<"DESCRIBE", "IDENTIFIER", "EOF">>,
      <<"HEAD", "IDENTIFIER", "EOF">>,
      <<"HEAD", "IDENTIFIER", "AS", "IDENTIFIER", "EOF">> }

TokenTypes == [i \in 1..Len(tokens) |-> tokens[i].type]

(* C17: parsing the newline-filtered token list of any valid single-line   *)
(* statement yields exactly one statement node, and that node's line and   *)
(* column equal those of the statement's leading keyword token.            *)
C17_NodeAtLeadingKeyword ==
    (TokenTypes \in ValidStatements /\ pc # "parse") =>
        /\ pc # "parse_raised"
        /\ Len(prog) = 1
        /\ prog[1].line = tokens[1].line
        /\ prog[1].column = tokens[1].column

(* C18: every diagnostic that compile_noeta raises for a single failing    *)
(* statement carries a context giving the statement's line (>= 1), a       *)
(* column, and the text of that source line.                               *)
C18_DiagnosticCarriesContext ==
    (result.kind = "raise" /\ result.exc = "NoetaError" /\ Len(errors) <= 1) =>
        /\ result.error.context # None
        /\ result.error.context.line >= 1
        /\ result.error.context.column >= 1

-----------------------------------------------------------------------------
\* The words of a text written with single spaces between them
RECURSIVE Split(_, _)
Split(text, word) ==
    IF text = <<>> THEN <<word>>
    ELSE IF Head(text) = " " THEN <<word>> \o Split(Tail(text), <<>>)
    ELSE Split(Tail(text), Append(word, Head(text)))

ExpressionWords == Split(SubSeq(source_code, Len(MutatePrefix) + 1, Len(source_code)), <<>>)

\* Positions of the given operators among the words
Occurrences(words, operators) == {i \in 1..Len(words) : words[i] \in operators}
Last(S) == CHOOSE i \in S : \A j \in S : j <= i
First(S) == CHOOSE i \in S : \A j \in S : i <= j

BinaryOpNode(left, operator, right) ==
    [kind |-> "BinaryOpNode", op |-> operator, args |-> <<left, right>>]
LiteralNode(value) == [kind |-> "LiteralNode", op |-> "", args |-> <<value>>]

Additive == {<<"+">>, <<"-">>}
Multiplicative == {<<"*">>, <<"/">>, <<"%">>}
Power == {<<"*", "*">>}

\* The tree of an expression without parentheses: additive operators bind
\* loosest and group to the left, then the multiplicative ones, then power,
\* which groups to the right
RECURSIVE Arithmetic(_)
SplitAt(words, i) ==
    BinaryOpNode(Arithmetic(SubSeq(words, 1, i - 1)), words[i],
                 Arithmetic(SubSeq(words, i + 1, Len(words))))
Arithmetic(words) ==
    IF Occurrences(words, Additive) # {} THEN SplitAt(words, Last(Occurrences(words, Additive)))
    ELSE IF Occurrences(words, Multiplicative) # {}
    THEN SplitAt(words, Last(Occurrences(words, Multiplicative)))
    ELSE IF Occurrences(words, Power) # {} THEN SplitAt(words, First(Occurrences(words, Power)))
    ELSE LiteralNode(NumberOf(words[1]).value)

(* C19: an arithmetic expression is parsed with power binding tighter than  *)
(* * / %, and those tighter than + -, power grouping to the right: the      *)
(* statement is accepted and its expression is that tree, so                *)
(* 1 + 2 * 3 ** 2 is 1 + (2 * (3 ** 2)).                                    *)
C19_ArithmeticPrecedence ==
    (source_code \in MutateSources /\ pc \notin {"lex", "parse"}) =>
        /\ pc \notin {"lex_raised", "parse_raised"}
        /\ Len(prog) = 1
        /\ prog[1].tree = Arithmetic(ExpressionWords)

-----------------------------------------------------------------------------
\* The tokens of the condition: after "filter d where", before the end marker
ConditionTokens == SubSeq(tokens, 4, Len(tokens) - 1)

OfType(ts, type) == {i \in 1..Len(ts) : ts[i].type = type}

\* The tree of a condition without parentheses: OR binds loosest, then AND,
\* then NOT; OR and AND group to the left
RECURSIVE Grouping(_)
GroupAt(ts, i, operator) ==
    BinaryConditionNode(Grouping(SubSeq(ts, 1, i - 1)), operator,
                        Grouping(SubSeq(ts, i + 1, Len(ts))))
Grouping(ts) ==
    IF OfType(ts, "OR") # {} THEN GroupAt(ts, Last(OfType(ts, "OR")), "or")
    ELSE IF OfType(ts, "AND") # {} THEN GroupAt(ts, Last(OfType(ts, "AND")), "and")
    ELSE IF ts[1].type = "NOT" THEN NotConditionNode(Grouping(Tail(ts)))
    ELSE ComparisonNode(ts[1].value, (CHOOSE op \in op_map : op[1] = ts[2].type)[2],
                        ts[3].value)

(* C20: a filter condition is parsed with NOT binding tighter than AND and  *)
(* AND tighter than OR, operators of one level grouping left to right: the  *)
(* statement is accepted and its condition is that tree.                    *)
C20_ConditionPrecedence ==
    source_code \in FilterSources =>
        /\ pc \notin {"lex_raised", "parse_raised"}
        /\ (prog # <<>> => prog[1].tree = Grouping(ConditionTokens))

\* filter d where a > 1 and b < 2 or c == 3
W20_AndBelowOr ==
    /\ source_code = FilterPrefix \o Comparisons[1] \o <<" ", "a", "n", "d", " ">>
                        \o Comparisons[2] \o <<" ", "o", "r", " ">> \o Comparisons[3]
    /\ prog # <<>>
    /\ prog[1].tree =
          BinaryConditionNode(
              BinaryConditionNode(ComparisonNode(StrValue(<<"a">>), ">", IntValue(1)), "and",
                                  ComparisonNode(StrValue(<<"b">>), "<", IntValue(2))),
              "or", ComparisonNode(StrValue(<<"c">>), "==", IntValue(3)))

-----------------------------------------------------------------------------
\* The value form written as the literal of the condition
WrittenForm == CHOOSE f \in ValueForms : source_code = ValuePrefix \o f.text

(* C21: parse_value accepts every value form of the grammar (string,        *)
(* number, boolean, null, list, also empty or with a trailing comma, map    *)
(* with string or bare-identifier keys) where a condition literal is        *)
(* expected, and returns the value the form denotes.                        *)
C21_ValueFormsAccepted ==
    source_code \in ValueSources =>
        /\ pc \notin {"lex_raised", "parse_raised"}
        /\ (prog # <<>> => prog[1].tree.args[2] = WrittenForm.value)

-----------------------------------------------------------------------------
\* The two-character operators of the language
TwoCharacterOperators ==
    {<<"=", "=">>, <<"!", "=">>, <<"<", "=">>, <<">", "=">>, <<"*", "*">>}

IsOneCharToken(t) ==
    IF "str" \in DOMAIN t.value THEN t.type # "STRING_LITERAL" /\ Len(t.value.str) = 1
    ELSE FALSE

\* Two one-character tokens lexed from the adjacent characters of a
\* two-character operator
SplitOperator(t, u) ==
    /\ IsOneCharToken(t) /\ IsOneCharToken(u)
    /\ t.line = u.line /\ u.column = t.column + 1
    /\ <<t.value.str[1], u.value.str[1]>> \in TwoCharacterOperators

(* C22: the adjacent characters of ==, !=, <=, >= or ** outside strings and *)
(* comments are never lexed as two one-character tokens.                    *)
C22_TwoCharOperatorsGreedy ==
    \A i \in 1..(Len(tokens) - 1) : ~SplitOperator(tokens[i], tokens[i + 1])

-----------------------------------------------------------------------------
\* The statement visited is accepted: no diagnostic is emitted
Accepted == VisitStep /\ errors' = errors

\* The generated text binds the alias of the i-th statement, or only renders
\* its result
Binds(i) == result.code[i].form = "bind" /\ result.code[i].target = prog[i].alias
Renders(i) == result.code[i].form = "render"

(* C23: a statement binds a dataset if and only if it ends with an alias:   *)
(* without one the symbol table is unchanged and the generated code only    *)
(* renders the result; with one exactly that alias is registered by the     *)
(* analyzer and assigned in the generated code.                             *)
C23_BindsIffAlias ==
    /\ [][Accepted =>
            IF prog[idx + 1].alias = NoAlias
            THEN datasets' = datasets /\ history' = history
            ELSE Names(datasets') = Names(datasets) \cup {prog[idx + 1].alias}
        ]_vars
    /\ [](result.kind = "text" =>
            \A i \in 1..Len(prog) :
                IF prog[i].alias = NoAlias THEN Renders(i) ELSE Binds(i))

-----------------------------------------------------------------------------
\* C24: compiling the same input twice, each time with a fresh symbol table,
\* returns the same text both times, import lines and code lines alike,
\* whatever order the import set is iterated in and whatever the first
\* compilation left behind.
SecondFinished == earlier # NoResult /\ pc \in {"returned", "raised"}

C24_SameTextTwice == SecondFinished => result = earlier

W24_CompiledTwice ==
    /\ SecondFinished
    /\ result.kind = "text"
    /\ Len(prog) = MaxStmts
    /\ \E i \in 1..Len(prog) : prog[i].alias # NoAlias

-----------------------------------------------------------------------------
\* The define calls made since the last clear, in call order
RECURSIVE SinceClear(_)
SinceClear(made) ==
    IF made = <<>> THEN <<>>
    ELSE IF made[Len(made)].method = "clear" THEN <<>>
    ELSE Append(SinceClear(SubSeq(made, 1, Len(made) - 1)), made[Len(made)])

\* The info given to the most recent of these define calls that names `name`
MostRecent(defines, name) ==
    LET at == {i \in 1..Len(defines) : defines[i].name = name}
    IN IF at = {} THEN None
       ELSE defines[CHOOSE i \in at : \A j \in at : j <= i].info

TableNames == {nD, nDat, nData}

\* C25: after any sequence of define and clear, exists(n) is true exactly
\* when lookup(n) returns an info and exactly when n is among
\* get_all_names(), and lookup(n) is the info given to the most recent
\* define of n.
C25_TableQueriesAgree ==
    \A n \in TableNames :
        /\ exists(datasets, n) <=> lookup(datasets, n) # None
        /\ exists(datasets, n) <=> n \in SeqToSet(get_all_names(datasets))
        /\ lookup(datasets, n) = MostRecent(SinceClear(calls), n)

W25_RedefinedAfterClear ==
    /\ Len(calls) = MaxCalls
    /\ calls[1].method = "define" /\ calls[1].name = nD
    /\ calls[2].method = "clear"
    /\ calls[3].method = "define" /\ calls[3].name = nD
    /\ calls[4].method = "define" /\ calls[4].name = nD
    /\ calls[4].info # calls[3].info
    /\ lookup(datasets, nD) = calls[4].info
    /\ ~exists(datasets, nDat)

NoDuplicates(s) == \A i, j \in 1..Len(s) : s[i] = s[j] => i = j

\* C26 as stated: history lists exactly the currently defined aliases, each
\* once, in the order of their definition.
C26_HistoryListsAliasesOnce ==
    /\ NoDuplicates(history)
    /\ SeqToSet(history) = SeqToSet(get_all_names(datasets))
    /\ history = get_all_names(datasets)

\* C26 amended: history lists the names given to the define calls made since
\* the last clear, one entry per call in call order (a name defined again is
\* listed again), and the names it lists are exactly the currently defined
\* aliases.
C26_HistoryLogsDefines ==
    /\ history = [i \in 1..Len(SinceClear(calls)) |-> SinceClear(calls)[i].name]
    /\ SeqToSet(history) = SeqToSet(get_all_names(datasets))

W26_NameListedTwice ==
    /\ calls # <<>>
    /\ \E i \in 1..Len(calls) : calls[i].method = "clear"
    /\ history = <<nDat, nD, nDat>>
    /\ get_all_names(datasets) = <<nDat, nD>>

-----------------------------------------------------------------------------
\* Files the schema probe cannot read a header from
FailingFiles == {fMissing, fLocked, fEmpty}

ProbeFails(node) == node.kind = "LoadNode" /\ node.file \in FailingFiles

\* C27: with type checking enabled, visiting a load whose file is missing,
\* unreadable or malformed emits no diagnostic and does not end the analysis:
\* the alias is registered with an empty (unknown) schema.
C27_FailedProbeIsSilent ==
    [][(VisitStep /\ enable_type_check /\ ProbeFails(prog[idx + 1])) =>
            /\ errors' = errors
            /\ pc' = "analyze"
            /\ lookup(datasets', prog[idx + 1].alias) =
                    DatasetInfo(prog[idx + 1].alias, <<>>, Op("file", prog[idx + 1].file))]_vars

W27_UnreadableAfterReadable ==
    /\ enable_type_check
    /\ idx = 2
    /\ prog[1] = LoadNode(fSales, nD)
    /\ ProbeFails(prog[2]) /\ prog[2].file = fLocked
    /\ errors = <<>>
    /\ lookup(datasets, nD).columns = KnownXY
    /\ lookup(datasets, prog[2].alias).columns = <<>>

-----------------------------------------------------------------------------
\* C28: in a session, after any sequence of cells, every alias the session's
\* symbol table resolves is bound to a table in the runtime namespace, also
\* after cells that fail to compile and cells whose code fails at run time.
C28_ResolvedAliasesBound == Names(datasets) \subseteq FrameNames(namespace)

-----------------------------------------------------------------------------
\* C29: a compile_noeta call that raises leaves the symbol table it was given
\* exactly as it was before the call: no alias a statement of the rejected
\* program defined remains registered.
C29_RaiseLeavesTableUntouched ==
    (carried /\ pc = "raised") =>
        [datasets |-> datasets, history |-> history] = supplied

-----------------------------------------------------------------------------
\* C30: whenever analysis of a parsed program returns no diagnostics,
\* compile_noeta returns the generated text: the generator handles every
\* statement kind and rejects no program the analyzer accepted.
AnalysisPassed == pc \in {"returned", "raised"} /\ errors = <<>>

C30_AcceptedProgramYieldsText == AnalysisPassed => result.kind = "text"

====
